---------------------------- MODULE Spec2Model ----------------------------
(***************************************************************************)
(* A model of the AI ecosystem mapper (src/ai_ecosystem_mapper.py): the    *)
(* creator identification rules, the phrase scan of one pull request's     *)
(* description, issue comments, review comments and commit messages, and   *)
(* the merge of the four results into one evidence map.                    *)
(*                                                                         *)
(* Python strings are TLA+ strings; s[a:b] is SubSeq(s, a + 1, b).  A dict *)
(* is the sequence of its (key, value) entries in insertion order, which   *)
(* is the order Python iterates it in.                                     *)
(***************************************************************************)
EXTENDS Integers, Sequences, FiniteSets, TLC

VARIABLES
    pr_data,          \* the PR record under analysis
    pc,               \* position in analyze_pr_ai_ecosystem
    primary_creator,  \* the verdict of identify_primary_creator
    ai_tools_found,   \* the merged evidence dict of scan_pr_for_ai_tools
    ai_evidence,      \* per category: the dict built (and returned) by its scan
    response,         \* per category: outcome of requests.get
    items,            \* per category: response.json(), the fetched items
    idx,              \* index of the next item / next dict entry to process
    outcome,          \* per category: how its scan ended
    program,          \* which entry point runs: the mapper or the PR test harness
    github_token,     \* os.getenv('GITHUB_TOKEN'), NULL when it is not set
    run_pc,           \* position in main / run_ecosystem_mapping
    requests_issued,  \* number of HTTP requests sent to the forge so far
    ai_prs,           \* the PRs returned by get_ai_pr_watcher_prs
    pr_index,         \* run_ecosystem_mapping's loop index i (1-based)
    ecosystem_results,\* the analyses appended so far
    report,           \* what _generate_ecosystem_report printed, NULL before
    saved,            \* what _save_ecosystem_results wrote, NULL before
    limit,            \* get_ai_pr_watcher_prs's parameter
    query_index,      \* index in search_queries of the next query to send
    found_prs,        \* get_ai_pr_watcher_prs's local list, before deduplication
    search_responses, \* what requests.get gave for each query sent so far
    call,             \* the AIWatcherTester method under way and its arguments
    request_log,      \* the requests the test harness has sent, with their answers
    returned,         \* what the last AIWatcherTester method returned
    completed         \* the sources of the PR under analysis, in the order their scans ended

\* The state of one PR's analysis, and the state of the run around it.
scanVars == <<pr_data, pc, primary_creator, ai_tools_found, ai_evidence,
              response, items, idx, outcome>>

runVars == <<program, github_token, run_pc, requests_issued, ai_prs, pr_index,
             ecosystem_results, report, saved>>

collectVars == <<limit, query_index, found_prs, search_responses>>

testerVars == <<call, request_log, returned>>

vars == <<scanVars, runVars, collectVars, testerVars, completed>>

\* Python's None.
NULL == "<None>"

-----------------------------------------------------------------------------
(* Strings *)

Min(a, b) == IF a < b THEN a ELSE b
Max(a, b) == IF a > b THEN a ELSE b

\* str.lower() on the letters the inputs use.
UpperCase == "ABCDEFGHIJKLMNOPQRSTUVWXYZ"
LowerCase == "abcdefghijklmnopqrstuvwxyz"

LowerChar(c) ==
    IF \E k \in 1..Len(UpperCase) : SubSeq(UpperCase, k, k) = c
    THEN LET k == CHOOSE k \in 1..Len(UpperCase) : SubSeq(UpperCase, k, k) = c
         IN  SubSeq(LowerCase, k, k)
    ELSE c

\* Character by character, splitting the string in halves.
RECURSIVE Lower(_)
Lower(s) ==
    IF Len(s) = 0 THEN s
    ELSE IF Len(s) = 1 THEN LowerChar(s)
    ELSE LET h == Len(s) \div 2
         IN  Lower(SubSeq(s, 1, h)) \o Lower(SubSeq(s, h + 1, Len(s)))

\* `pattern in text` on strings: substring containment.
Contains(text, pattern) ==
    \E i \in 1..(Len(text) - Len(pattern) + 1) :
        SubSeq(text, i, i + Len(pattern) - 1) = pattern

\* str.find: the 0-based position of the first occurrence, or -1.
MatchesAt(text, pattern, i) == SubSeq(text, i, i + Len(pattern) - 1) = pattern

Find(text, pattern) ==
    IF Contains(text, pattern)
    THEN (CHOOSE i \in 1..(Len(text) - Len(pattern) + 1) :
            /\ MatchesAt(text, pattern, i)
            /\ \A j \in 1..(i - 1) : ~MatchesAt(text, pattern, j)) - 1
    ELSE -1

\* The number of (possibly overlapping) occurrences of pattern in text.
Occurrences(text, pattern) ==
    Cardinality({i \in 1..(Len(text) - Len(pattern) + 1) :
                    SubSeq(text, i, i + Len(pattern) - 1) = pattern})

IsSpace(c) == c \in {" ", "\n", "\t"}

RECURSIVE LStrip(_)
LStrip(s) ==
    IF Len(s) > 0 /\ IsSpace(SubSeq(s, 1, 1)) THEN LStrip(SubSeq(s, 2, Len(s)))
    ELSE s

RECURSIVE RStrip(_)
RStrip(s) ==
    IF Len(s) > 0 /\ IsSpace(SubSeq(s, Len(s), Len(s)))
    THEN RStrip(SubSeq(s, 1, Len(s) - 1))
    ELSE s

\* str.strip()
Strip(s) == RStrip(LStrip(s))

\* s[:n]
Prefix(s, n) == SubSeq(s, 1, Min(n, Len(s)))

-----------------------------------------------------------------------------
(* The rule tables *)

\* self.ai_tool_patterns, in dict order.
ai_tool_patterns == <<
    [tool |-> "chatgpt", patterns |-> <<
        "chatgpt", "chat-gpt", "gpt-4", "gpt-3.5", "gpt-3", "openai gpt",
        "generated with chatgpt", "chatgpt helped", "used chatgpt",
        "chatgpt suggested", "ask chatgpt", "chatgpt says",
        "according to chatgpt">>],
    [tool |-> "github_copilot", patterns |-> <<
        "github copilot", "copilot", "gh copilot", "copilot suggested",
        "copilot generated", "with copilot", "copilot helped", "copilot says",
        "copilot completion", "copilot auto", "thanks copilot">>],
    [tool |-> "claude", patterns |-> <<
        "claude", "anthropic claude", "claude ai", "claude helped",
        "claude says", "generated with claude", "claude suggested",
        "asked claude", "claude thinks", "claude code", "claude-code">>],
    [tool |-> "codex", patterns |-> <<
        "codex", "openai codex", "codex generated", "with codex", "codex says",
        "codex completion", "codex helped">>],
    [tool |-> "cursor", patterns |-> <<
        "cursor ai", "cursor", "cursor suggested", "cursor helped",
        "with cursor", "cursor completion", "cursor says">>],
    [tool |-> "devin", patterns |-> <<
        "devin", "devin ai", "devin-ai", "devin generated", "devin says",
        "devin helped", "devin suggested">>],
    [tool |-> "codewhisperer", patterns |-> <<
        "codewhisperer", "code whisperer", "amazon codewhisperer",
        "aws codewhisperer">>],
    [tool |-> "tabnine", patterns |-> <<
        "tabnine", "tab nine", "tabnine completion", "tabnine suggested">>],
    [tool |-> "cody", patterns |-> <<
        "cody ai", "sourcegraph cody", "cody", "cody helped",
        "cody suggested">>],
    [tool |-> "general_ai", patterns |-> <<
        "ai assisted", "ai generated", "ai helped", "ai suggestion", "ai tool",
        "artificial intelligence", "machine learning", "neural network",
        "large language model", "llm", "ai model", "ai review",
        "ai analysis">>] >>

\* self.creator_patterns, in dict order (the bot accounts are the only part
\* identify_primary_creator reads).
creator_patterns == <<
    [tool |-> "devin",
     bot_accounts |-> <<"devin-ai-integration[bot]", "devin-ai[bot]">>],
    [tool |-> "codegen",
     bot_accounts |-> <<"codegen-sh[bot]", "codegen[bot]">>],
    [tool |-> "github_copilot",
     bot_accounts |-> <<"github-copilot[bot]">>],
    [tool |-> "codex",
     bot_accounts |-> <<"openai-codex[bot]">>],
    [tool |-> "cursor",
     bot_accounts |-> <<"cursor[bot]", "cursor-ai[bot]">>] >>

SeqToSet(s) == {s[i] : i \in DOMAIN s}

MentionTools == {ai_tool_patterns[i].tool : i \in DOMAIN ai_tool_patterns}
CreatorTools == {creator_patterns[i].tool : i \in DOMAIN creator_patterns}

-----------------------------------------------------------------------------
(* identify_primary_creator *)

\* `author in [bot.lower() for bot in patterns['bot_accounts']]`
IsBotOf(author, patterns) ==
    \E j \in DOMAIN patterns.bot_accounts :
        Lower(patterns.bot_accounts[j]) = author

\* The bot-account loop: the index of the first creator whose bot accounts
\* hold the author, or 0.
RECURSIVE BotAccountMatch(_, _)
BotAccountMatch(author, k) ==
    IF k > Len(creator_patterns) THEN 0
    ELSE IF IsBotOf(author, creator_patterns[k]) THEN k
    ELSE BotAccountMatch(author, k + 1)

\* Variant of BranchPatternVerdict: the cursor marker rated like the others.
BranchPatternVerdict_CursorMedium(detection_query, author_raw) ==
    IF Contains(detection_query, "head:copilot/") THEN
        [primary_creator |-> "github_copilot", confidence |-> "medium",
         evidence |-> "Branch pattern: copilot/"]
    ELSE IF Contains(detection_query, "head:codex/") THEN
        [primary_creator |-> "codex", confidence |-> "medium",
         evidence |-> "Branch pattern: codex/"]
    ELSE IF Contains(detection_query, "head:cursor/") THEN
        [primary_creator |-> "cursor", confidence |-> "medium",
         evidence |-> "Branch pattern: cursor/ (cursor is primarily an IDE)"]
    ELSE
        [primary_creator |-> "unknown", confidence |-> "low",
         evidence |-> "Author: " \o author_raw \o ", Query: " \o detection_query]

\* Variant of BranchPatternVerdict: the query is case-folded before the
\* markers are looked for.
BranchPatternVerdict_CaseFold(detection_query, author_raw) ==
    IF Contains(Lower(detection_query), "head:copilot/") THEN
        [primary_creator |-> "github_copilot", confidence |-> "medium",
         evidence |-> "Branch pattern: copilot/"]
    ELSE IF Contains(Lower(detection_query), "head:codex/") THEN
        [primary_creator |-> "codex", confidence |-> "medium",
         evidence |-> "Branch pattern: codex/"]
    ELSE IF Contains(Lower(detection_query), "head:cursor/") THEN
        [primary_creator |-> "cursor", confidence |-> "low",
         evidence |-> "Branch pattern: cursor/ (cursor is primarily an IDE)"]
    ELSE
        [primary_creator |-> "unknown", confidence |-> "low",
         evidence |-> "Author: " \o author_raw \o ", Query: " \o detection_query]

\* Variant of BranchPatternVerdict: when no marker is in the query, the
\* author is looked up in the mention phrases.
BranchPatternVerdict_MentionFallback(detection_query, author_raw) ==
    LET mentioned == SelectSeq(ai_tool_patterns,
                        LAMBDA t : \E j \in DOMAIN t.patterns :
                                      Contains(Lower(author_raw), t.patterns[j]))
    IN  IF Contains(detection_query, "head:copilot/") THEN
            [primary_creator |-> "github_copilot", confidence |-> "medium",
             evidence |-> "Branch pattern: copilot/"]
        ELSE IF Contains(detection_query, "head:codex/") THEN
            [primary_creator |-> "codex", confidence |-> "medium",
             evidence |-> "Branch pattern: codex/"]
        ELSE IF Contains(detection_query, "head:cursor/") THEN
            [primary_creator |-> "cursor", confidence |-> "low",
             evidence |-> "Branch pattern: cursor/ (cursor is primarily an IDE)"]
        ELSE IF mentioned # <<>> THEN
            [primary_creator |-> mentioned[1].tool, confidence |-> "low",
             evidence |-> "Author: " \o author_raw \o ", Query: " \o detection_query]
        ELSE
            [primary_creator |-> "unknown", confidence |-> "low",
             evidence |-> "Author: " \o author_raw \o ", Query: " \o detection_query]

\* Variant of BranchPatternVerdict: the markers tried in the reverse order,
\* so that the last marker of the fixed order decides.
BranchPatternVerdict_LastMarker(detection_query, author_raw) ==
    IF Contains(detection_query, "head:cursor/") THEN
        [primary_creator |-> "cursor", confidence |-> "low",
         evidence |-> "Branch pattern: cursor/ (cursor is primarily an IDE)"]
    ELSE IF Contains(detection_query, "head:codex/") THEN
        [primary_creator |-> "codex", confidence |-> "medium",
         evidence |-> "Branch pattern: codex/"]
    ELSE IF Contains(detection_query, "head:copilot/") THEN
        [primary_creator |-> "github_copilot", confidence |-> "medium",
         evidence |-> "Branch pattern: copilot/"]
    ELSE
        [primary_creator |-> "unknown", confidence |-> "low",
         evidence |-> "Author: " \o author_raw \o ", Query: " \o detection_query]

\* The if / elif chain on the detection query.
BranchPatternVerdict(detection_query, author_raw) ==
    IF Contains(detection_query, "head:copilot/") THEN
        [primary_creator |-> "github_copilot", confidence |-> "medium",
         evidence |-> "Branch pattern: copilot/"]
    ELSE IF Contains(detection_query, "head:codex/") THEN
        [primary_creator |-> "codex", confidence |-> "medium",
         evidence |-> "Branch pattern: codex/"]
    ELSE IF Contains(detection_query, "head:cursor/") THEN
        [primary_creator |-> "cursor", confidence |-> "low",
         evidence |-> "Branch pattern: cursor/ (cursor is primarily an IDE)"]
    ELSE
        [primary_creator |-> "unknown", confidence |-> "low",
         evidence |-> "Author: " \o author_raw \o ", Query: " \o detection_query]

\* Variant of identify_primary_creator: the branch markers are tried before
\* the bot accounts.
identify_primary_creator_BranchFirst(pr) ==
    LET author == Lower(pr.author)
        k == BotAccountMatch(author, 1)
        byBranch == BranchPatternVerdict(pr.detection_query, pr.author)
    IN  IF byBranch.primary_creator # "unknown" THEN byBranch
        ELSE IF k # 0 THEN
            [primary_creator |-> creator_patterns[k].tool,
             confidence |-> "high",
             evidence |-> "Bot account: " \o pr.author]
        ELSE byBranch

identify_primary_creator(pr) ==
    LET author == Lower(pr.author)
        k == BotAccountMatch(author, 1)
    IN  IF k # 0 THEN
            [primary_creator |-> creator_patterns[k].tool,
             confidence |-> "high",
             evidence |-> "Bot account: " \o pr.author]
        ELSE BranchPatternVerdict(pr.detection_query, pr.author)

-----------------------------------------------------------------------------
(* Evidence dicts and the phrase scan *)

\* The position of key in dict d, or 0: `key in d` is DictIndex(d, key) # 0.
RECURSIVE DictIndexFrom(_, _, _)
DictIndexFrom(d, key, k) ==
    IF k > Len(d) THEN 0
    ELSE IF d[k].tool = key THEN k
    ELSE DictIndexFrom(d, key, k + 1)

DictIndex(d, key) == DictIndexFrom(d, key, 1)

HasKey(d, key) == DictIndex(d, key) # 0

\* d[key], the empty list standing in for a missing key.
Get(d, key) == IF HasKey(d, key) THEN d[DictIndex(d, key)].evidence ELSE <<>>

\* list(d.keys())
Keys(d) == [k \in DOMAIN d |-> d[k].tool]

\* `if tool_name not in d: d[tool_name] = []`
SetDefaultEmpty(d, key) ==
    IF HasKey(d, key) THEN d ELSE Append(d, [tool |-> key, evidence |-> <<>>])

\* `d[tool_name].extend(evidence_list)`, for a key that is present.
Extend(d, key, evidence_list) ==
    [d EXCEPT ![DictIndex(d, key)].evidence = @ \o evidence_list]

\* Variant of HalfContext: the whole context length on each side.
HalfContext_Whole(context_length) == context_length

\* context_length // 2, the pad on each side of the match.
HalfContext(context_length) == context_length \div 2

\* Variant of _extract_context: the not-found branch taken for every pattern.
_extract_context_PrefixOnly(text, pattern, context_length) ==
    Strip(Prefix(text, context_length))

\* _extract_context(text, pattern, context_length=80)
_extract_context(text, pattern, context_length) ==
    LET pattern_pos == Find(text, pattern)
        start == Max(0, pattern_pos - HalfContext(context_length))
        end == Min(Len(text),
                   pattern_pos + Len(pattern) + HalfContext(context_length))
    IN  IF pattern_pos = -1 THEN Strip(Prefix(text, context_length))
        ELSE Strip(SubSeq(text, start + 1, end))

\* The default of _extract_context's context_length parameter.
ContextLength == 80

\* The Evidence appended on a hit.  meta holds the category's own fields
\* (author, date, file, commit_sha).
Evidence(text, pattern, location, meta) ==
    [location |-> location, pattern |-> pattern,
     context |-> _extract_context(text, pattern, ContextLength)] @@ meta

\* Variant of MatchedPatterns: the pattern loop left at the first hit.
MatchedPatterns_FirstOnly(text, patterns) ==
    LET hits == SelectSeq(patterns, LAMBDA pattern : Contains(text, pattern))
    IN  IF Len(hits) = 0 THEN hits ELSE <<hits[1]>>

\* Variant of MatchedPatterns: one hit for every occurrence of a pattern.
MatchedPatterns_PerOccurrence(text, patterns) ==
    LET Repeated(pattern) == [n \in 1..Occurrences(text, pattern) |-> pattern]
        RECURSIVE From(_)
        From(j) == IF j > Len(patterns) THEN <<>>
                   ELSE Repeated(patterns[j]) \o From(j + 1)
    IN  From(1)

\* `for pattern in patterns: if pattern in text`: the patterns that hit, in
\* list order.
MatchedPatterns(text, patterns) ==
    SelectSeq(patterns, LAMBDA pattern : Contains(text, pattern))

\* Variant of ScanPatterns: the tool's list is created before any pattern is
\* tried.
ScanPatterns_EagerKey(d, tool_name, patterns, text, location, meta) ==
    LET hits == MatchedPatterns(text, patterns)
    IN  Extend(SetDefaultEmpty(d, tool_name), tool_name,
               [i \in 1..Len(hits) |-> Evidence(text, hits[i], location, meta)])

\* The pattern loop of one tool: the first hit creates the tool's list if it
\* is missing, and every hit appends one Evidence.
ScanPatterns(d, tool_name, patterns, text, location, meta) ==
    LET hits == MatchedPatterns(text, patterns)
    IN  IF Len(hits) = 0 THEN d
        ELSE Extend(SetDefaultEmpty(d, tool_name), tool_name,
                    [i \in 1..Len(hits) |->
                        Evidence(text, hits[i], location, meta)])

\* `for tool_name, patterns in self.ai_tool_patterns.items()`, from tool t on.
RECURSIVE ScanTools(_, _, _, _, _)
ScanTools(d, t, text, location, meta) ==
    IF t > Len(ai_tool_patterns) THEN d
    ELSE ScanTools(ScanPatterns(d, ai_tool_patterns[t].tool,
                                ai_tool_patterns[t].patterns,
                                text, location, meta),
                   t + 1, text, location, meta)

\* The scan of one lowercased text into dict d.
ScanText(d, text, location, meta) == ScanTools(d, 1, text, location, meta)

NoMeta == [x \in {} |-> x]

\* scan_pr_for_ai_tools, lines 221-233: the title and description scan.
\* title + ' ' + None raises TypeError, which nothing catches.
DescriptionRaises(pr) == pr.body = NULL

DescriptionText(pr) == Lower(pr.title \o " " \o pr.body)

ScanDescription(pr) ==
    ScanText(<<>>, DescriptionText(pr), "PR description", NoMeta)

\* Variant of MergeEntry: dict.update semantics, the category's list replacing
\* the one already held.
MergeEntry_Overwrite(found, entry) ==
    IF HasKey(found, entry.tool)
    THEN [found EXCEPT ![DictIndex(found, entry.tool)].evidence = entry.evidence]
    ELSE Append(found, entry)

\* The merge loop body of scan_pr_for_ai_tools for one entry of a category's
\* dict.
MergeEntry(found, entry) ==
    Extend(SetDefaultEmpty(found, entry.tool), entry.tool, entry.evidence)

-----------------------------------------------------------------------------
(* The three category scans *)

Categories == <<"comments", "reviews", "commits">>
Cat == SeqToSet(Categories)

Location(c) ==
    CASE c = "comments" -> "PR comment"
      [] c = "reviews" -> "Code review comment"
      [] c = "commits" -> "Commit message"

\* Whether reading the item's fields raises before any pattern is tried:
\* None.lower() for a null body or message, None['login'] for a null user,
\* None['name'] for a null commit author.
ItemRaises(c, item) ==
    CASE c = "comments" -> item.body = NULL \/ item.user = NULL
      [] c = "reviews" -> item.body = NULL \/ item.user = NULL
      [] c = "commits" -> item.message = NULL \/ item.author = NULL

\* Variant of ItemText: the text scanned as fetched, not lowercased.
ItemText_NoLower(c, item) ==
    IF c = "commits" THEN item.message ELSE item.body

\* The lowercased text of the item.
ItemText(c, item) ==
    IF c = "commits" THEN Lower(item.message) ELSE Lower(item.body)

\* The category's own Evidence fields.
ItemMeta(c, item) ==
    CASE c = "comments" -> [author |-> item.user, date |-> item.created_at]
      [] c = "reviews" -> [author |-> item.user, file |-> item.path]
      [] c = "commits" -> [commit_sha |-> Prefix(item.sha, 8),
                           author |-> item.author]

\* One pass of `for comment in comments` (resp. review comment, commit).
ScanItem(d, c, item) == ScanText(d, ItemText(c, item), Location(c), ItemMeta(c, item))

-----------------------------------------------------------------------------
(* Inputs *)

\* The longest list of items a fetch returns.
MaxItems == 2

\* All sequences over S of length at most n.
RECURSIVE SeqsUpTo(_, _)
SeqsUpTo(S, n) ==
    IF n = 0 THEN {<<>>}
    ELSE LET shorter == SeqsUpTo(S, n - 1)
         IN  shorter \cup {Append(q, x) : q \in {r \in shorter : Len(r) = n - 1},
                                          x \in S}

\* PR records as get_ai_pr_watcher_prs builds them (lines 138-150): the body
\* is whatever the forge sent, null included.
LongTitle ==
    "Rework the retry loop of the request layer and the backoff timers used by it"

LongBody ==
    "The change was drafted using GitHub Copilot and then reviewed line by line by two maintainers"

AnalyzedPRs == {
    [title |-> "Add parser",
     body |-> "Generated with ChatGPT, reviewed via copilot suggested edits",
     author |-> "github-copilot[bot]",
     detection_query |-> "is:pr head:copilot/"],
    [title |-> "Tidy build",
     body |-> "Built with Devin",
     author |-> "alice",
     detection_query |-> "is:pr head:cursor/"],
    [title |-> "Fix typo",
     body |-> "",
     author |-> "Devin-AI-Integration[bot]",
     detection_query |-> "is:pr author:devin-ai-integration[bot]"],
    [title |-> LongTitle,
     body |-> LongBody,
     author |-> "bob",
     detection_query |-> "is:pr head:codex/"],
    [title |-> "Bump deps",
     body |-> NULL,
     author |-> "codegen-sh[bot]",
     detection_query |-> "is:pr author:codegen-sh[bot]"] }

\* The items a 200 response of each category may hold; the last of each set
\* has a null field.
ItemPool(c) ==
    CASE c = "comments" -> {
            [body |-> "I used ChatGPT for the tests", user |-> "bob",
             created_at |-> "2025-06-01"],
            [body |-> "Claude and claude agree", user |-> "carol",
             created_at |-> "2025-06-02"],
            [body |-> "ask chatgpt", user |-> NULL,
             created_at |-> "2025-06-03"] }
      [] c = "reviews" -> {
            [body |-> "Cursor flagged this", user |-> "eve",
             path |-> "src/a.py"],
            [body |-> NULL, user |-> "eve", path |-> "src/b.py"] }
      [] c = "commits" -> {
            [message |-> "Apply codex patch", sha |-> "0123456789abcdef",
             author |-> "dev"],
            [message |-> "Docs: ChatGPT notes", sha |-> "89abcdef01234567",
             author |-> "dev"],
            [message |-> "with codex", sha |-> "fedcba9876543210",
             author |-> NULL] }

ItemLists(c) == SeqsUpTo(ItemPool(c), MaxItems)

\* (author, detection_query) pairs for identify_primary_creator alone: the
\* five search queries of get_ai_pr_watcher_prs and queries with two markers
\* or none.
Authors == {
    "github-copilot[bot]", "GitHub-Copilot[bot]", "devin-ai-integration[bot]",
    "devin-ai[bot]", "codegen-sh[bot]", "Codegen[bot]", "openai-codex[bot]",
    "cursor[bot]", "cursor-ai[bot]", "alice", "copilot", "dependabot[bot]",
    "claude-dev" }

Queries == {
    "is:pr head:copilot/", "is:pr head:codex/", "is:pr head:cursor/",
    "is:pr author:devin-ai-integration[bot]", "is:pr author:codegen-sh[bot]",
    "is:pr head:cursor/ head:copilot/", "is:pr head:codex/ head:cursor/",
    "is:pr head:Copilot/", "is:pr" }

\* Descriptions for the phrase scan alone: a phrase (or none, or one twice)
\* at the start, after a short lead or past the context window, followed by
\* nothing, a few words, trailing white space or a long tail.
Filler == "this sentence is only here to fill the window "

ScanLeads == {"", "Note: ", Filler \o Filler}

ScanMiddles == {
    "ChatGPT", "GitHub Copilot", "generated with Claude", "codex", "Cursor AI",
    "copilot and Copilot", "an LLM", "tab nine", "plain words",
    "Sourcegraph Cody helped", "Copilot suggested it, thanks Copilot" }

ScanTails == {"", " was used", "  \n", " " \o Filler \o Filler}

ScanInputs ==
    {[title |-> "Fix", body |-> lead \o middle \o tail, author |-> "alice",
      detection_query |-> "is:pr"] :
        lead \in ScanLeads, middle \in ScanMiddles, tail \in ScanTails}

IdentifyInputs ==
    {[title |-> "t", body |-> "", author |-> a, detection_query |-> q] :
        a \in Authors, q \in Queries}

-----------------------------------------------------------------------------
(* analyze_pr_ai_ecosystem as a state machine *)

NoVerdict == [primary_creator |-> NULL, confidence |-> NULL, evidence |-> NULL]

At(step, c) == [step |-> step, cat |-> c]

\* The category scanned after c, in the order scan_pr_for_ai_tools calls them.
NextAfter(c) ==
    CASE c = "comments" -> At("fetch", "reviews")
      [] c = "reviews" -> At("fetch", "commits")
      [] c = "commits" -> At("done", "-")

\* No collection and no method of the test harness under way.
CollectIdle ==
    /\ limit = 0
    /\ query_index = 1
    /\ found_prs = <<>>
    /\ search_responses = <<>>

\* No method of AIWatcherTester called yet, nothing returned yet.
NoLabels == [given |-> FALSE, names |-> <<>>]

NoCall ==
    [method |-> "none", step |-> "idle", branch_name |-> "",
     labels |-> NoLabels, pr_number |-> 0]

Nothing == [kind |-> "nothing"]

TesterIdle ==
    /\ call = NoCall
    /\ request_log = <<>>
    /\ returned = Nothing
    /\ completed = <<>>

\* The run around a single analysis taken on its own: the mapper, built with
\* a token, not yet collecting.
RunIdle ==
    /\ program = "mapper"
    /\ github_token = "ghp_token"
    /\ run_pc = "idle"
    /\ requests_issued = 0
    /\ ai_prs = <<>>
    /\ pr_index = 1
    /\ ecosystem_results = <<>>
    /\ report = NULL
    /\ saved = NULL
    /\ CollectIdle
    /\ TesterIdle

InitWith(prs) ==
    /\ RunIdle
    /\ pr_data \in prs
    /\ pc = At("identify", "-")
    /\ primary_creator = NoVerdict
    /\ ai_tools_found = <<>>
    /\ ai_evidence = [c \in Cat |-> <<>>]
    /\ response = [c \in Cat |-> "none"]
    /\ items = [c \in Cat |-> <<>>]
    /\ idx = 1
    /\ outcome = [c \in Cat |-> "pending"]

Init == InitWith(AnalyzedPRs)

\* analyze_pr_ai_ecosystem, line 384.
Identify ==
    /\ pc = At("identify", "-")
    /\ primary_creator' = identify_primary_creator(pr_data)
    /\ pc' = At("description", "-")
    /\ UNCHANGED <<runVars, collectVars, testerVars, completed>>
    /\ UNCHANGED <<pr_data, ai_tools_found, ai_evidence, response, items, idx,
                   outcome>>

\* scan_pr_for_ai_tools, lines 219-233.
Description ==
    /\ pc = At("description", "-")
    /\ IF DescriptionRaises(pr_data)
       THEN /\ pc' = At("raised", "-")
            /\ UNCHANGED ai_tools_found
       ELSE /\ ai_tools_found' = ScanDescription(pr_data)
            /\ pc' = At("fetch", "comments")
    /\ UNCHANGED <<runVars, collectVars, testerVars, completed>>
    /\ UNCHANGED <<pr_data, primary_creator, ai_evidence, response, items, idx,
                   outcome>>

\* Variant of OnException: no try block, the exception leaves
\* scan_pr_for_ai_tools.
OnException_Propagate(c) == At("raised", "-")

\* Where a category scan goes when an exception is raised inside its try
\* block: the except clause prints and the function returns its dict.
OnException(c) == At("merge", c)

\* requests.get raises, or response.json() does.
FetchRaises(c) ==
    /\ pc = At("fetch", c)
    /\ response' = [response EXCEPT ![c] = "exception"]
    /\ outcome' = [outcome EXCEPT ![c] = "fetch_error"]
    /\ pc' = OnException(c)
    /\ idx' = 1
    /\ UNCHANGED <<runVars, collectVars, testerVars, completed>>
    /\ UNCHANGED <<pr_data, primary_creator, ai_tools_found, ai_evidence, items>>

\* status_code != 200: the loop is skipped.
FetchNon200(c) ==
    /\ pc = At("fetch", c)
    /\ response' = [response EXCEPT ![c] = "non200"]
    /\ outcome' = [outcome EXCEPT ![c] = "non200"]
    /\ pc' = At("merge", c)
    /\ idx' = 1
    /\ UNCHANGED <<runVars, collectVars, testerVars, completed>>
    /\ UNCHANGED <<pr_data, primary_creator, ai_tools_found, ai_evidence, items>>

\* status_code == 200: the items are response.json().
FetchOk(c) ==
    /\ pc = At("fetch", c)
    /\ \E list \in ItemLists(c) : items' = [items EXCEPT ![c] = list]
    /\ response' = [response EXCEPT ![c] = "ok"]
    /\ pc' = At("scan", c)
    /\ idx' = 1
    /\ UNCHANGED <<runVars, collectVars, testerVars, completed>>
    /\ UNCHANGED <<pr_data, primary_creator, ai_tools_found, ai_evidence,
                   outcome>>

\* One pass of the item loop that completes.
ScanNext(c) ==
    /\ pc = At("scan", c)
    /\ idx <= Len(items[c])
    /\ ~ItemRaises(c, items[c][idx])
    /\ ai_evidence' = [ai_evidence EXCEPT ![c] = ScanItem(@, c, items[c][idx])]
    /\ idx' = idx + 1
    /\ UNCHANGED <<runVars, collectVars, testerVars, completed>>
    /\ UNCHANGED <<pr_data, pc, primary_creator, ai_tools_found, response,
                   items, outcome>>

\* One pass of the item loop that raises.
ScanRaises(c) ==
    /\ pc = At("scan", c)
    /\ idx <= Len(items[c])
    /\ ItemRaises(c, items[c][idx])
    /\ outcome' = [outcome EXCEPT ![c] = "item_error"]
    /\ pc' = OnException(c)
    /\ idx' = 1
    /\ UNCHANGED <<runVars, collectVars, testerVars, completed>>
    /\ UNCHANGED <<pr_data, primary_creator, ai_tools_found, ai_evidence,
                   response, items>>

\* The item loop ends; the function returns its dict.
ScanReturns(c) ==
    /\ pc = At("scan", c)
    /\ idx > Len(items[c])
    /\ outcome' = [outcome EXCEPT ![c] = "ok"]
    /\ pc' = At("merge", c)
    /\ idx' = 1
    /\ UNCHANGED <<runVars, collectVars, testerVars, completed>>
    /\ UNCHANGED <<pr_data, primary_creator, ai_tools_found, ai_evidence,
                   response, items>>

\* One pass of the merge loop over the category's dict.
MergeNext(c) ==
    /\ pc = At("merge", c)
    /\ idx <= Len(ai_evidence[c])
    /\ ai_tools_found' = MergeEntry(ai_tools_found, ai_evidence[c][idx])
    /\ idx' = idx + 1
    /\ UNCHANGED <<runVars, collectVars, testerVars, completed>>
    /\ UNCHANGED <<pr_data, pc, primary_creator, ai_evidence, response, items,
                   outcome>>

\* The merge loop ends: on to the next category, or return ai_tools_found.
MergeDone(c) ==
    /\ pc = At("merge", c)
    /\ idx > Len(ai_evidence[c])
    /\ pc' = NextAfter(c)
    /\ idx' = 1
    /\ UNCHANGED <<runVars, collectVars, testerVars, completed>>
    /\ UNCHANGED <<pr_data, primary_creator, ai_tools_found, ai_evidence,
                   response, items, outcome>>

Fetch(c) == FetchRaises(c) \/ FetchNon200(c) \/ FetchOk(c)
Scan(c) == ScanNext(c) \/ ScanRaises(c) \/ ScanReturns(c)
Merge(c) == MergeNext(c) \/ MergeDone(c)

_scan_pr_comments == Fetch("comments") \/ Scan("comments")
_scan_review_comments == Fetch("reviews") \/ Scan("reviews")
_scan_commit_messages == Fetch("commits") \/ Scan("commits")
MergeCategories == \E c \in Cat : Merge(c)

Next ==
    \/ Identify
    \/ Description
    \/ _scan_pr_comments
    \/ _scan_review_comments
    \/ _scan_commit_messages
    \/ MergeCategories

Spec == Init /\ [][Next]_vars

\* identify_primary_creator alone, over every (author, query) pair.
InitIdentify == InitWith(IdentifyInputs)

SpecIdentify == InitIdentify /\ [][Identify]_vars

\* The description scan alone, over every scan input.
InitScanText == InitWith(ScanInputs)

NextScanText == Identify \/ Description

SpecScanText == InitScanText /\ [][NextScanText]_vars

-----------------------------------------------------------------------------
(* Properties of identify_primary_creator *)

Identified == pc.step # "identify"

\* Whether the lowercased author is a registered bot account of some tool.
IsRegisteredBot(author) ==
    \E k \in DOMAIN creator_patterns :
        \E j \in DOMAIN creator_patterns[k].bot_accounts :
            creator_patterns[k].bot_accounts[j] = Lower(author)

\* The branch-prefix markers and their tiers, in the order the code tries them.
RecognizedMarkers == <<
    [marker |-> "head:copilot/", tool |-> "github_copilot", tier |-> "medium"],
    [marker |-> "head:codex/", tool |-> "codex", tier |-> "medium"],
    [marker |-> "head:cursor/", tool |-> "cursor", tier |-> "low"] >>

HasMarker(query, m) == Occurrences(query, RecognizedMarkers[m].marker) > 0

\* C1: an author whose lowercased login is a registered bot account of tool T
\* gets the verdict T with confidence high, whatever the detection query
\* holds.
C1_BotAccountWins ==
    Identified =>
        \A k \in DOMAIN creator_patterns :
            \A j \in DOMAIN creator_patterns[k].bot_accounts :
                creator_patterns[k].bot_accounts[j] = Lower(pr_data.author) =>
                    /\ primary_creator.primary_creator = creator_patterns[k].tool
                    /\ primary_creator.confidence = "high"

\* C1's case: a bot account of one tool found through the branch marker of
\* another.
C1_Witness ==
    /\ Identified
    /\ pr_data.author = "GitHub-Copilot[bot]"
    /\ pr_data.detection_query = "is:pr head:codex/ head:cursor/"
    /\ primary_creator.primary_creator = "github_copilot"
    /\ primary_creator.confidence = "high"

\* C2 as stated: for an author that is no bot account, every recognized
\* marker held by the query decides the verdict: its tool, at its tier.
C2_EveryMarkerDecides ==
    (Identified /\ ~IsRegisteredBot(pr_data.author)) =>
        \A m \in DOMAIN RecognizedMarkers :
            HasMarker(pr_data.detection_query, m) =>
                /\ primary_creator.primary_creator = RecognizedMarkers[m].tool
                /\ primary_creator.confidence = RecognizedMarkers[m].tier

\* C2, amended: for an author that is no bot account, the first recognized
\* marker the query holds, in the order head:copilot/, head:codex/,
\* head:cursor/, decides the verdict: its tool, at its tier.
C2_FirstMarkerDecides ==
    (Identified /\ ~IsRegisteredBot(pr_data.author)) =>
        \A m \in DOMAIN RecognizedMarkers :
            (/\ HasMarker(pr_data.detection_query, m)
             /\ \A n \in 1..(m - 1) : ~HasMarker(pr_data.detection_query, n)) =>
                /\ primary_creator.primary_creator = RecognizedMarkers[m].tool
                /\ primary_creator.confidence = RecognizedMarkers[m].tier

\* C2's case: no bot account, a query with the cursor marker alone, the
\* verdict cursor at low.
C2_Witness ==
    /\ Identified
    /\ pr_data.author = "copilot"
    /\ pr_data.detection_query = "is:pr head:cursor/"
    /\ primary_creator.primary_creator = "cursor"
    /\ primary_creator.confidence = "low"

\* C3: an author that is no bot account and a query that holds no recognized
\* marker get the verdict unknown with confidence low.
C3_UnknownLow ==
    (/\ Identified
     /\ ~IsRegisteredBot(pr_data.author)
     /\ \A m \in DOMAIN RecognizedMarkers :
            ~HasMarker(pr_data.detection_query, m)) =>
        /\ primary_creator.primary_creator = "unknown"
        /\ primary_creator.confidence = "low"

\* C3's case: neither a bot account nor a marker (the markers are matched
\* case-sensitively), the verdict unknown.
C3_Witness ==
    /\ Identified
    /\ pr_data.author = "dependabot[bot]"
    /\ pr_data.detection_query = "is:pr head:Copilot/"
    /\ primary_creator.primary_creator = "unknown"
    /\ primary_creator.confidence = "low"

-----------------------------------------------------------------------------
(* Properties of the phrase scan *)

PatternsOf(tool) ==
    ai_tool_patterns[CHOOSE t \in DOMAIN ai_tool_patterns :
                        ai_tool_patterns[t].tool = tool].patterns

\* The cataloged phrases of the tool that occur in the text.
PhrasesIn(text, tool) ==
    {p \in SeqToSet(PatternsOf(tool)) : Occurrences(text, p) > 0}

\* The tools with a cataloged phrase in the text.
ToolsIn(text) == {tool \in MentionTools : PhrasesIn(text, tool) # {}}

\* The evidence of dict d under tool whose phrase is p.
EvidenceFor(d, tool, p) == SelectSeq(Get(d, tool), LAMBDA e : e.pattern = p)

\* The description scan is over and nothing has been merged into its result.
DescriptionScanned ==
    /\ pc.step \in {"fetch", "scan", "merge", "done"}
    /\ \A c \in Cat : ai_evidence[c] = <<>>

ScenarioPR ==
    [title |-> "Add parser",
     body |-> "Generated with ChatGPT, reviewed via copilot suggested edits",
     author |-> "github-copilot[bot]",
     detection_query |-> "is:pr head:copilot/"]

ScenarioVerdict ==
    /\ primary_creator.primary_creator = "github_copilot"
    /\ primary_creator.confidence = "high"
    /\ primary_creator.evidence = "Bot account: github-copilot[bot]"

\* C4 as stated: in the scenario (no matches outside the description) the
\* verdict is github_copilot, high, by bot account, and the evidence map has
\* exactly the keys chatgpt and github_copilot, each with one Evidence.
C4_ScenarioOneEach ==
    (pr_data = ScenarioPR /\ DescriptionScanned) =>
        /\ ScenarioVerdict
        /\ Keys(ai_tools_found) = <<"chatgpt", "github_copilot">>
        /\ Len(Get(ai_tools_found, "chatgpt")) = 1
        /\ Len(Get(ai_tools_found, "github_copilot")) = 1

\* C4, amended: the verdict and the two keys are as stated, and each key has
\* two Evidence, one per cataloged phrase the description holds: chatgpt and
\* generated with chatgpt; copilot and copilot suggested.
C4_ScenarioTwoEach ==
    (pr_data = ScenarioPR /\ DescriptionScanned) =>
        /\ ScenarioVerdict
        /\ Keys(ai_tools_found) = <<"chatgpt", "github_copilot">>
        /\ [i \in 1..Len(Get(ai_tools_found, "chatgpt")) |->
                Get(ai_tools_found, "chatgpt")[i].pattern]
             = <<"chatgpt", "generated with chatgpt">>
        /\ [i \in 1..Len(Get(ai_tools_found, "github_copilot")) |->
                Get(ai_tools_found, "github_copilot")[i].pattern]
             = <<"copilot", "copilot suggested">>
        /\ \A k \in DOMAIN ai_tools_found :
             \A i \in DOMAIN ai_tools_found[k].evidence :
                ai_tools_found[k].evidence[i].location = "PR description"

\* C4's case: the scenario analysed to the end with nothing found outside
\* the description.
C4_Witness ==
    /\ pr_data = ScenarioPR
    /\ pc.step = "done"
    /\ \A c \in Cat : ai_evidence[c] = <<>>
    /\ Len(ai_tools_found) = 2

\* The description has just been scanned into ai_tools_found.
FreshScan == pc = At("fetch", "comments")

FreshText == DescriptionText(pr_data)

FreshDict == ai_tools_found

\* C5 as stated: a cataloged phrase p of tool T that occurs exactly once in
\* the text gives exactly one Evidence under T, whose context holds p.
C5_OneEvidenceUnderTool ==
    FreshScan =>
        \A t \in DOMAIN ai_tool_patterns :
            \A j \in DOMAIN ai_tool_patterns[t].patterns :
                LET p == ai_tool_patterns[t].patterns[j]
                    tool == ai_tool_patterns[t].tool
                IN  Occurrences(FreshText, p) = 1 =>
                        /\ Len(Get(FreshDict, tool)) = 1
                        /\ Occurrences(Get(FreshDict, tool)[1].context, p) > 0

\* C5, amended: a cataloged phrase p of tool T that occurs exactly once in
\* the text gives exactly one Evidence for p under T, whose context holds p;
\* T has one more Evidence for each other cataloged phrase of T in the text.
C5_OneEvidencePerPhrase ==
    FreshScan =>
        \A t \in DOMAIN ai_tool_patterns :
            \A j \in DOMAIN ai_tool_patterns[t].patterns :
                LET p == ai_tool_patterns[t].patterns[j]
                    tool == ai_tool_patterns[t].tool
                IN  Occurrences(FreshText, p) = 1 =>
                        /\ Len(EvidenceFor(FreshDict, tool, p)) = 1
                        /\ Occurrences(EvidenceFor(FreshDict, tool, p)[1].context, p) > 0
                        /\ Len(Get(FreshDict, tool))
                             = Cardinality(PhrasesIn(FreshText, tool))

\* C5's case: a description longer than the context window whose phrase
\* github copilot occurs once, past the first 80 characters, scanned.
C5_Witness ==
    /\ FreshScan
    /\ pr_data.body = Filler \o Filler \o "GitHub Copilot" \o "  \n"
    /\ Occurrences(FreshText, "github copilot") = 1
    /\ Find(FreshText, "github copilot") > ContextLength
    /\ Len(Get(ai_tools_found, "github_copilot")) = 2

-----------------------------------------------------------------------------
(* Properties of the merge and of the category scans *)

Returned == pc.step = "done"

\* The scan of each description and of each well-formed item on its own,
\* computed once.
DescriptionTable ==
    [p \in {q \in AnalyzedPRs : ~DescriptionRaises(q)} |-> ScanDescription(p)]

ItemTable ==
    [c \in Cat |->
        [item \in {i \in ItemPool(c) : ~ItemRaises(c, i)} |->
            ScanItem(<<>>, c, item)]]

\* The lowercased text of the only item of a category, read off the item.
OnlyItemText(c) ==
    Lower(IF c = "commits" THEN items[c][1].message ELSE items[c][1].body)

\* The number of Evidence in a dict.
RECURSIVE EvidenceTotalFrom(_, _)
EvidenceTotalFrom(d, k) ==
    IF k > Len(d) THEN 0 ELSE Len(d[k].evidence) + EvidenceTotalFrom(d, k + 1)

EvidenceTotal(d) == EvidenceTotalFrom(d, 1)

\* The four sources, in scan order, with the texts they held.
SourceTexts ==
    <<DescriptionText(pr_data), OnlyItemText("comments"),
      OnlyItemText("reviews"), OnlyItemText("commits")>>

SourceLocations ==
    <<"PR description", "PR comment", "Code review comment", "Commit message">>

TheTool(text) == CHOOSE tool \in ToolsIn(text) : TRUE

\* The description, one comment, one review comment and one commit, all
\* fetched and scanned without failure, each matching one tool, the four
\* tools different.
FourSourcesFourTools ==
    /\ Returned
    /\ \A c \in Cat : outcome[c] = "ok" /\ Len(items[c]) = 1
    /\ \A i \in 1..4 : Cardinality(ToolsIn(SourceTexts[i])) = 1
    /\ \A i, j \in 1..4 : i # j => TheTool(SourceTexts[i]) # TheTool(SourceTexts[j])

InSourceOrder ==
    /\ Keys(ai_tools_found) = [i \in 1..4 |-> TheTool(SourceTexts[i])]
    /\ \A i \in 1..4 :
         \A e \in SeqToSet(ai_tools_found[i].evidence) :
            e.location = SourceLocations[i]

\* C6 as stated: four sources that each match a different tool give a map
\* with exactly four keys, in source order, whose evidence counts sum to 4.
C6_FourKeysSumFour ==
    FourSourcesFourTools =>
        /\ Len(ai_tools_found) = 4
        /\ InSourceOrder
        /\ EvidenceTotal(ai_tools_found) = 4

\* C6, amended: four sources that each match a different tool give a map with
\* exactly four keys, in source order, each key holding one Evidence per
\* cataloged phrase of its tool in its source; the counts sum to 4 when each
\* source holds a single cataloged phrase.
C6_FourKeysOnePerPhrase ==
    FourSourcesFourTools =>
        /\ Len(ai_tools_found) = 4
        /\ InSourceOrder
        /\ \A i \in 1..4 :
             Len(ai_tools_found[i].evidence)
               = Cardinality(PhrasesIn(SourceTexts[i], TheTool(SourceTexts[i])))
        /\ (\A i \in 1..4 :
               Cardinality(PhrasesIn(SourceTexts[i], TheTool(SourceTexts[i]))) = 1)
             => EvidenceTotal(ai_tools_found) = 4

\* C6's case: devin in the description, claude in the comment, cursor in the
\* review comment, codex in the commit, one phrase each.
C6_Witness ==
    /\ FourSourcesFourTools
    /\ Keys(ai_tools_found) = <<"devin", "claude", "cursor", "codex">>
    /\ EvidenceTotal(ai_tools_found) = 4

\* The keys of the four dicts in order of first appearance.
RECURSIVE FirstSeen(_, _)
FirstSeen(keys, k) ==
    IF k > Len(keys) THEN <<>>
    ELSE IF \E j \in 1..(k - 1) : keys[j] = keys[k] THEN FirstSeen(keys, k + 1)
    ELSE <<keys[k]>> \o FirstSeen(keys, k + 1)

\* C7: on return, every tool's evidence is the concatenation of its evidence
\* from the description scan, the comment scan, the review comment scan and
\* the commit scan, nothing dropped, merged or deduplicated, and the keys
\* stand in order of first appearance, whichever sources are empty.
C7_ConcatenationInSourceOrder ==
    Returned =>
        /\ \A tool \in MentionTools :
             Get(ai_tools_found, tool) =
                Get(DescriptionTable[pr_data], tool)
                \o Get(ai_evidence["comments"], tool)
                \o Get(ai_evidence["reviews"], tool)
                \o Get(ai_evidence["commits"], tool)
        /\ Keys(ai_tools_found) =
             FirstSeen(Keys(DescriptionTable[pr_data])
                       \o Keys(ai_evidence["comments"])
                       \o Keys(ai_evidence["reviews"])
                       \o Keys(ai_evidence["commits"]), 1)

\* C7's case: chatgpt found in the description, twice over in the comments
\* and in a commit, with no review evidence in between.
C7_Witness ==
    /\ Returned
    /\ Len(Get(DescriptionTable[pr_data], "chatgpt")) = 2
    /\ Len(Get(ai_evidence["comments"], "chatgpt")) = 4
    /\ ai_evidence["reviews"] = <<>>
    /\ Len(Get(ai_evidence["commits"], "chatgpt")) = 1
    /\ Len(Get(ai_tools_found, "chatgpt")) = 7

NoEmptyEntry(d) == \A k \in DOMAIN d : Len(d[k].evidence) > 0

\* C8: in every state of the scan and the merge, every tool key of the merged
\* map and of each category's map has at least one Evidence.
C8_NoEmptyEvidence ==
    /\ NoEmptyEntry(ai_tools_found)
    /\ \A c \in Cat : NoEmptyEntry(ai_evidence[c])

\* C8's case: a merge under way into a map that already has keys.
C8_Witness ==
    /\ pc = At("merge", "commits")
    /\ idx = 2
    /\ Len(ai_tools_found) >= 3
    /\ Len(ai_evidence["comments"]) = 2


\* A dict merged entry by entry into another.
RECURSIVE MergeAllFrom(_, _, _)
MergeAllFrom(found, d, k) ==
    IF k > Len(d) THEN found
    ELSE MergeAllFrom(MergeEntry(found, d[k]), d, k + 1)

\* What the scan of a list of well-formed items returns: each item's own
\* scan, appended tool by tool to what the items before it gave.
RECURSIVE ScanOfItems(_, _, _)
ScanOfItems(c, list, k) ==
    IF k = 0 THEN <<>>
    ELSE MergeAllFrom(ScanOfItems(c, list, k - 1), ItemTable[c][list[k]], 1)

\* The evidence of a tool in the returned map that comes from one source.
FromSource(tool, location) ==
    SelectSeq(Get(ai_tools_found, tool), LAMBDA e : e.location = location)

Failed(c) == outcome[c] \in {"fetch_error", "non200", "item_error"}

\* C9: a failure in the comment, review comment or commit category (an
\* exception or a response other than 200) never leaves scan_pr_for_ai_tools
\* as an exception and never stops the categories after it: on return every
\* category has been scanned, and the description and every category that
\* did not fail contribute exactly what their own texts give.
C9_FailureIsContained ==
    /\ pc.step = "raised" => \A c \in Cat : outcome[c] = "pending"
    /\ Returned =>
        /\ \A c \in Cat : outcome[c] # "pending"
        /\ \A tool \in MentionTools :
             /\ FromSource(tool, "PR description")
                  = Get(DescriptionTable[pr_data], tool)
             /\ \A c \in Cat :
                  outcome[c] = "ok" =>
                     FromSource(tool, Location(c))
                       = Get(ScanOfItems(c, items[c], Len(items[c])), tool)

\* C9's case: the comment fetch raised, the review comments answered other
\* than 200, and the commits scanned after them still gave their evidence.
C9_Witness ==
    /\ Returned
    /\ outcome["comments"] = "fetch_error"
    /\ outcome["reviews"] = "non200"
    /\ outcome["commits"] = "ok"
    /\ Len(items["commits"]) = 2
    /\ Len(FromSource("codex", "Commit message")) = 1
    /\ Len(FromSource("chatgpt", "Commit message")) = 1

\* C10: a category whose scan raised, while fetching or while processing an
\* item, contributes an empty evidence map: none of its Evidence is in the
\* result.
C10_FailedCategoryIsEmpty ==
    \A c \in Cat :
        outcome[c] \in {"fetch_error", "item_error"} =>
            /\ ai_evidence[c] = <<>>
            /\ Returned =>
                 \A tool \in MentionTools : FromSource(tool, Location(c)) = <<>>

(***************************************************************************)
(* Exceptions out of the scan                                              *)
(***************************************************************************)

\* The sources of the scanned PR that cannot be processed: a null body of
\* the PR itself, or a fetched item with a null text or author.
UnprocessableDescription == DescriptionRaises(pr_data)

\* C11: no exception leaves scan_pr_for_ai_tools, whatever the PR record: the
\* scan never ends raised, and a PR whose body is null still has its scan
\* return, the description then contributing no evidence.
C11_NoExceptionEscapes ==
    /\ pc.step # "raised"
    /\ (Returned /\ UnprocessableDescription) =>
          \A tool \in MentionTools : FromSource(tool, "PR description") = <<>>

-----------------------------------------------------------------------------
(***************************************************************************)
(* One PR's analysis as a function of the PR record and of what the three  *)
(* fetches gave                                                            *)
(***************************************************************************)

\* A category scan after its fetch (lines 262-292, 298-328, 334-364): the
\* items are scanned in order into one dict; the first item that raises ends
\* the loop and the dict built so far is returned.
RECURSIVE ScanItemsFrom(_, _, _, _)
ScanItemsFrom(d, c, list, k) ==
    IF k > Len(list) THEN d
    ELSE IF ItemRaises(c, list[k]) THEN d
    ELSE ScanItemsFrom(ScanItem(d, c, list[k]), c, list, k + 1)

\* What one category scan returns; fetched is [outcome, items], an outcome
\* other than "ok" standing for an exception or a non-200 answer.
CategoryScan(c, fetched) ==
    IF fetched.outcome = "ok" THEN ScanItemsFrom(<<>>, c, fetched.items, 1)
    ELSE <<>>

\* scan_pr_for_ai_tools on a PR whose description can be scanned.
scan_pr_for_ai_tools(pr, fetched) ==
    LET description == ScanDescription(pr)
        comments == MergeAllFrom(description,
                                 CategoryScan("comments", fetched["comments"]), 1)
        reviews == MergeAllFrom(comments,
                                CategoryScan("reviews", fetched["reviews"]), 1)
    IN  MergeAllFrom(reviews, CategoryScan("commits", fetched["commits"]), 1)

\* Variant of analyze_pr_ai_ecosystem: the tool count taken as the number of
\* Evidence found.
analyze_pr_ai_ecosystem_CountEvidence(pr, fetched) ==
    LET found == scan_pr_for_ai_tools(pr, fetched)
    IN  [pr_info |-> [url |-> pr.url,
                      repo |-> pr.repo_owner \o "/" \o pr.repo_name,
                      pr_number |-> pr.pr_number,
                      title |-> pr.title,
                      author |-> pr.author,
                      state |-> pr.state],
         primary_creator |-> identify_primary_creator(pr),
         ai_tools_detected |-> found,
         ai_tool_count |-> EvidenceTotal(found),
         ai_tool_names |-> Keys(found),
         is_multi_ai |-> EvidenceTotal(found) > 1]

\* analyze_pr_ai_ecosystem, lines 384-406, for a PR whose scan returns.
analyze_pr_ai_ecosystem(pr, fetched) ==
    LET found == scan_pr_for_ai_tools(pr, fetched)
    IN  [pr_info |-> [url |-> pr.url,
                      repo |-> pr.repo_owner \o "/" \o pr.repo_name,
                      pr_number |-> pr.pr_number,
                      title |-> pr.title,
                      author |-> pr.author,
                      state |-> pr.state],
         primary_creator |-> identify_primary_creator(pr),
         ai_tools_detected |-> found,
         ai_tool_count |-> Len(found),
         ai_tool_names |-> Keys(found),
         is_multi_ai |-> Len(found) > 1]

-----------------------------------------------------------------------------
(* Inputs of a run *)

\* The longest list of PRs a collection returns.
MaxPRs == 3

\* A PR record as get_ai_pr_watcher_prs builds it (lines 138-150).
PRInfo(number, digits, title, body, author, query) ==
    [pr_number |-> number,
     title |-> title,
     url |-> "https://github.com/acme/app/pull/" \o digits,
     repo_owner |-> "acme",
     repo_name |-> "app",
     detection_query |-> query,
     state |-> "open",
     created_at |-> "2025-06-01T00:00:00Z",
     updated_at |-> "2025-06-04T00:00:00Z",
     author |-> author,
     body |-> body]

\* The PRs the forge holds: the five of AnalyzedPRs and a second PR from a
\* copilot branch.
ForgePRs == {
    PRInfo(1, "1", "Add parser",
           "Generated with ChatGPT, reviewed via copilot suggested edits",
           "github-copilot[bot]", "is:pr head:copilot/"),
    PRInfo(2, "2", "Tidy build", "Built with Devin", "alice",
           "is:pr head:cursor/"),
    PRInfo(3, "3", "Fix typo", "", "Devin-AI-Integration[bot]",
           "is:pr author:devin-ai-integration[bot]"),
    PRInfo(4, "4", LongTitle, LongBody, "bob", "is:pr head:codex/"),
    PRInfo(5, "5", "Bump deps", NULL, "codegen-sh[bot]",
           "is:pr author:codegen-sh[bot]"),
    PRInfo(6, "6", "Refactor cache", "Pairing notes from Claude and Cursor",
           "carol", "is:pr head:copilot/") }

\* All sequences over S of length at most n without a repeated element.
DistinctSeqsUpTo(S, n) ==
    {q \in SeqsUpTo(S, n) : \A j, k \in DOMAIN q : j # k => q[j] # q[k]}

\* What get_ai_pr_watcher_prs may return: PRs with pairwise different urls
\* (lines 160-165), none when no query found any.
CollectedLists == DistinctSeqsUpTo(ForgePRs, MaxPRs)

\* The item of a category's pool with the given text.
ItemWith(c, text) ==
    CHOOSE item \in ItemPool(c) :
        (IF c = "commits" THEN item.message ELSE item.body) = text

\* What the three fetches of one PR may give: every fetch failing; comments
\* whose second item is malformed; a failed comment fetch followed by one
\* review comment and one commit.
FetchProfiles == {
    [comments |-> [outcome |-> "fetch_error", items |-> <<>>],
     reviews |-> [outcome |-> "non200", items |-> <<>>],
     commits |-> [outcome |-> "fetch_error", items |-> <<>>]],
    [comments |-> [outcome |-> "ok",
                   items |-> <<ItemWith("comments", "I used ChatGPT for the tests"),
                               ItemWith("comments", "ask chatgpt")>>],
     reviews |-> [outcome |-> "non200", items |-> <<>>],
     commits |-> [outcome |-> "ok", items |-> <<>>]],
    [comments |-> [outcome |-> "fetch_error", items |-> <<>>],
     reviews |-> [outcome |-> "ok",
                  items |-> <<ItemWith("reviews", "Cursor flagged this")>>],
     commits |-> [outcome |-> "ok",
                  items |-> <<ItemWith("commits", "Apply codex patch")>>]] }

\* The PRs whose analysis returns, and their analyses under every profile.
AnalyzablePRs == {pr \in ForgePRs : ~DescriptionRaises(pr)}

AnalysisTable ==
    [pr \in AnalyzablePRs |->
        [fetched \in FetchProfiles |-> analyze_pr_ai_ecosystem(pr, fetched)]]

-----------------------------------------------------------------------------
(***************************************************************************)
(* _generate_ecosystem_report                                              *)
(*                                                                         *)
(* A counting dict is the sequence of its [key, count] entries in          *)
(* insertion order.                                                        *)
(***************************************************************************)

\* d[key] = d.get(key, 0) + 1
Increment(d, key) ==
    IF \E k \in DOMAIN d : d[k].key = key
    THEN [k \in DOMAIN d |->
             IF d[k].key = key THEN [d[k] EXCEPT !.count = @ + 1] ELSE d[k]]
    ELSE Append(d, [key |-> key, count |-> 1])

\* Variant of SortedByCount: the entries left in insertion order.
SortedByCount_Unsorted(d) == d

\* sorted(d.items(), key=lambda x: x[1], reverse=True): the sort is stable,
\* and stays so under reverse=True, so an entry stands after every entry with
\* a greater count and after the earlier entries with the same count.
SortedByCount(d) ==
    LET Rank(k) == Cardinality({j \in DOMAIN d : d[j].count > d[k].count})
                     + Cardinality({j \in 1..k : d[j].count = d[k].count})
    IN  [p \in DOMAIN d |-> d[CHOOSE k \in DOMAIN d : Rank(k) = p]]

\* Variant of MaxByCount: the first entry, whatever its count.
MaxByCount_FirstEntry(d) == d[1]

\* max(d.items(), key=lambda x: x[1]): the first entry, in insertion order,
\* whose count no entry exceeds.
MaxByCount(d) ==
    d[CHOOSE k \in DOMAIN d :
          /\ \A j \in DOMAIN d : d[j].count <= d[k].count
          /\ \A j \in 1..(k - 1) : d[j].count < d[k].count]

\* The creators dict after the first k results (lines 467-470).
RECURSIVE CreatorsFrom(_, _)
CreatorsFrom(results, k) ==
    IF k = 0 THEN <<>>
    ELSE Increment(CreatorsFrom(results, k - 1),
                   results[k].primary_creator.primary_creator)

\* The evidence map's keys, each repeated once per Evidence it holds.
RECURSIVE NamePerEvidence(_, _)
NamePerEvidence(d, k) ==
    IF k > Len(d) THEN <<>>
    ELSE [j \in 1..Len(d[k].evidence) |-> d[k].tool] \o NamePerEvidence(d, k + 1)

\* Variant of CountedTools: a tool counted once per Evidence.
CountedTools_PerEvidence(result) == NamePerEvidence(result.ai_tools_detected, 1)

\* `for tool in result['ai_tool_names']` (line 480).
CountedTools(result) == result.ai_tool_names

RECURSIVE IncrementEach(_, _, _)
IncrementEach(d, names, j) ==
    IF j > Len(names) THEN d
    ELSE IncrementEach(Increment(d, names[j]), names, j + 1)

\* The tool_frequency dict after the first k results (lines 478-481).
RECURSIVE ToolFrequencyFrom(_, _)
ToolFrequencyFrom(results, k) ==
    IF k = 0 THEN <<>>
    ELSE IncrementEach(ToolFrequencyFrom(results, k - 1),
                       CountedTools(results[k]), 1)

\* The keys of ai_tool_patterns in the order Python compares strings.
AlphabeticalTools ==
    <<"chatgpt", "claude", "codewhisperer", "codex", "cody", "cursor", "devin",
      "general_ai", "github_copilot", "tabnine">>

\* Variant of CombinationKey: the names kept in discovery order.
CombinationKey_Unsorted(names) == names

\* tuple(sorted(result['ai_tool_names'])), line 522; the names are the keys
\* of a dict, so no name repeats.
CombinationKey(names) ==
    SelectSeq(AlphabeticalTools, LAMBDA tool : tool \in SeqToSet(names))

\* The combinations dict after the first k results (lines 519-523).
RECURSIVE CombinationsFrom(_, _)
CombinationsFrom(results, k) ==
    IF k = 0 THEN <<>>
    ELSE IF results[k].is_multi_ai
         THEN Increment(CombinationsFrom(results, k - 1),
                        CombinationKey(results[k].ai_tool_names))
         ELSE CombinationsFrom(results, k - 1)

\* sum(r['ai_tool_count'] for r in results)
RECURSIVE ToolCountSum(_, _)
ToolCountSum(results, k) ==
    IF k = 0 THEN 0 ELSE ToolCountSum(results, k - 1) + results[k].ai_tool_count

\* The number of multi-AI results the report lists (line 493).
ShownLimit == 5

\* What the report prints for a non-empty list of results.  A quotient is
\* kept as the pair of its terms; the percentages, each a count of the
\* report over total_prs, are not kept.
EcosystemReport(results) ==
    LET total_prs == Len(results)
        multi_ai_results == SelectSeq(results, LAMBDA r : r.is_multi_ai)
        creator_multi_ai == CreatorsFrom(multi_ai_results, Len(multi_ai_results))
        combinations == CombinationsFrom(results, total_prs)
    IN  [total_prs |-> total_prs,
         multi_ai_prs |-> Len(multi_ai_results),
         creators |-> SortedByCount(CreatorsFrom(results, total_prs)),
         tool_frequency |-> SortedByCount(ToolFrequencyFrom(results, total_prs)),
         multi_ai_shown |->
             [k \in 1..Min(ShownLimit, Len(multi_ai_results)) |->
                 multi_ai_results[k].pr_info.url],
         top_multi_creator |->
             IF creator_multi_ai = <<>> THEN NULL ELSE MaxByCount(creator_multi_ai),
         top_combo |->
             IF combinations = <<>> THEN NULL ELSE MaxByCount(combinations),
         average |-> [sum |-> ToolCountSum(results, total_prs),
                      over |-> total_prs]]

\* Variant of WithoutContext: the matched phrase dropped with the context.
WithoutContext_DropPattern(evidence) ==
    [f \in DOMAIN evidence \ {"context", "pattern"} |-> evidence[f]]

\* {k: v for k, v in evidence.items() if k != 'context'}
WithoutContext(evidence) ==
    [f \in DOMAIN evidence \ {"context"} |-> evidence[f]]

\* The copy of the results that _save_ecosystem_results serializes (lines
\* 534-549): every Evidence without its context, the other fields as they
\* are.
SerializableResults(results) ==
    [k \in DOMAIN results |->
        LET result == results[k]
            detected == result.ai_tools_detected
        IN  [pr_info |-> result.pr_info,
             primary_creator |-> result.primary_creator,
             ai_tools_detected |->
                 [t \in DOMAIN detected |->
                     [tool |-> detected[t].tool,
                      evidence |->
                          [j \in DOMAIN detected[t].evidence |->
                              WithoutContext(detected[t].evidence[j])]]],
             ai_tool_count |-> result.ai_tool_count,
             ai_tool_names |-> result.ai_tool_names,
             is_multi_ai |-> result.is_multi_ai]]

-----------------------------------------------------------------------------
(***************************************************************************)
(* The run: construction of the client, collection, the analysis loop,     *)
(* the report and the saved file                                           *)
(***************************************************************************)

\* The searches get_ai_pr_watcher_prs sends (lines 108-114), and the fetches
\* of one PR's scan (comments, review comments, commits).
SearchQueryCount == 5

FetchCount == Cardinality(Cat)

\* No analysis under way.
ScanIdle ==
    /\ pr_data = [title |-> "", body |-> "", author |-> "", detection_query |-> ""]
    /\ pc = At("idle", "-")
    /\ primary_creator = NoVerdict
    /\ ai_tools_found = <<>>
    /\ ai_evidence = [c \in Cat |-> <<>>]
    /\ response = [c \in Cat |-> "none"]
    /\ items = [c \in Cat |-> <<>>]
    /\ idx = 1
    /\ outcome = [c \in Cat |-> "pending"]

\* An entry point about to build its client, the token set or not.
InitRun ==
    /\ ScanIdle
    /\ program \in {"mapper", "tester"}
    /\ github_token \in {NULL, "ghp_token"}
    /\ run_pc = "start"
    /\ requests_issued = 0
    /\ ai_prs = <<>>
    /\ pr_index = 1
    /\ ecosystem_results = <<>>
    /\ report = NULL
    /\ saved = NULL
    /\ CollectIdle
    /\ TesterIdle

\* AIEcosystemMapper.__init__ (lines 21-26): the token is read and put into
\* the headers, set or not; nothing is checked.
AIEcosystemMapper_init ==
    /\ program = "mapper"
    /\ run_pc = "start"
    /\ run_pc' = "collect"
    /\ UNCHANGED <<scanVars, collectVars, testerVars, completed>>
    /\ UNCHANGED <<program, github_token, requests_issued, ai_prs,
                   pr_index, ecosystem_results, report, saved>>

\* AIWatcherTester.__init__ (lines 12-18): without a token it raises
\* ValueError, which run_tests.main catches to print and return (lines
\* 39-45).
AIWatcherTester_init ==
    /\ program = "tester"
    /\ run_pc = "start"
    /\ run_pc' = IF github_token = NULL THEN "halted" ELSE "tester_ready"
    /\ UNCHANGED <<scanVars, collectVars, testerVars, completed>>
    /\ UNCHANGED <<program, github_token, requests_issued, ai_prs,
                   pr_index, ecosystem_results, report, saved>>

\* get_ai_pr_watcher_prs as run_ecosystem_mapping sees it (lines 415-420):
\* every search is sent, failures are swallowed, and the PRs found come back
\* without duplicates.  With 'token None' in the headers the forge rejects
\* every search, so nothing is collected.  No PR ends the run with no value
\* returned.
get_ai_pr_watcher_prs ==
    /\ run_pc = "collect"
    /\ \E prs \in (IF github_token = NULL THEN {<<>>} ELSE CollectedLists) :
          /\ ai_prs' = prs
          /\ run_pc' = IF prs = <<>> THEN "returned_none" ELSE "analyze"
    /\ requests_issued' = requests_issued + SearchQueryCount
    /\ UNCHANGED <<scanVars, collectVars, testerVars, completed>>
    /\ UNCHANGED <<program, github_token, pr_index, ecosystem_results,
                   report, saved>>

\* One pass of the loop of run_ecosystem_mapping (lines 426-430), the PR's
\* three fetches giving any of the profiles.  An exception of the analysis is
\* caught nowhere: it ends the run.
analyze_next ==
    /\ run_pc = "analyze"
    /\ pr_index <= Len(ai_prs)
    /\ pr_data' = ai_prs[pr_index]
    /\ primary_creator' = identify_primary_creator(ai_prs[pr_index])
    /\ IF DescriptionRaises(ai_prs[pr_index])
       THEN /\ run_pc' = "raised"
            /\ UNCHANGED <<ai_tools_found, ecosystem_results, pr_index,
                           requests_issued>>
       ELSE \E fetched \in FetchProfiles :
              LET analysis == AnalysisTable[ai_prs[pr_index]][fetched]
              IN  /\ ai_tools_found' = analysis.ai_tools_detected
                  /\ ecosystem_results' = Append(ecosystem_results, analysis)
                  /\ pr_index' = pr_index + 1
                  /\ requests_issued' = requests_issued + FetchCount
                  /\ run_pc' = IF pr_index = Len(ai_prs) THEN "report"
                               ELSE "analyze"
    /\ UNCHANGED <<pc, ai_evidence, response, items, idx, outcome, program,
                   github_token, ai_prs, report, saved, collectVars, testerVars, completed>>

\* _generate_ecosystem_report (line 447): line 464 divides by total_prs, so
\* an empty list of results raises ZeroDivisionError.
_generate_ecosystem_report ==
    /\ run_pc = "report"
    /\ IF Len(ecosystem_results) = 0
       THEN /\ run_pc' = "raised"
            /\ UNCHANGED report
       ELSE /\ report' = EcosystemReport(ecosystem_results)
            /\ run_pc' = "save"
    /\ UNCHANGED <<scanVars, collectVars, testerVars, completed>>
    /\ UNCHANGED <<program, github_token, requests_issued, ai_prs,
                   pr_index, ecosystem_results, saved>>

\* _save_ecosystem_results and the return of the results (lines 450-452).
_save_ecosystem_results ==
    /\ run_pc = "save"
    /\ saved' = SerializableResults(ecosystem_results)
    /\ run_pc' = "returned"
    /\ UNCHANGED <<scanVars, collectVars, testerVars, completed>>
    /\ UNCHANGED <<program, github_token, requests_issued, ai_prs,
                   pr_index, ecosystem_results, report>>

\* main after run_ecosystem_mapping has returned (lines 563-566): the
\* summary takes len() of the returned value, which is the list of results
\* (line 452) or, when no PR was collected, None (the bare return of line
\* 420); len(None) raises TypeError, which nothing catches.
main ==
    /\ run_pc \in {"returned", "returned_none"}
    /\ run_pc' = IF run_pc = "returned_none" THEN "main_raised" ELSE "exit"
    /\ UNCHANGED <<scanVars, collectVars, testerVars, completed>>
    /\ UNCHANGED <<program, github_token, requests_issued, ai_prs,
                   pr_index, ecosystem_results, report, saved>>

NextRun ==
    \/ AIEcosystemMapper_init
    \/ AIWatcherTester_init
    \/ get_ai_pr_watcher_prs
    \/ analyze_next
    \/ _generate_ecosystem_report
    \/ _save_ecosystem_results
    \/ main

SpecRun == InitRun /\ [][NextRun]_vars

\* The report alone, over every list of analyses of different PRs, the
\* empty list included.
ResultLists ==
    UNION {{[k \in DOMAIN q |-> AnalysisTable[q[k]][f[k]]] :
                f \in [DOMAIN q -> FetchProfiles]} :
           q \in DistinctSeqsUpTo(AnalyzablePRs, MaxPRs)}

InitReport ==
    /\ ScanIdle
    /\ program = "mapper"
    /\ github_token = "ghp_token"
    /\ run_pc = "report"
    /\ requests_issued = 0
    /\ ai_prs = <<>>
    /\ pr_index = 1
    /\ ecosystem_results \in ResultLists
    /\ report = NULL
    /\ saved = NULL
    /\ CollectIdle
    /\ TesterIdle

SpecReport == InitReport /\ [][_generate_ecosystem_report]_vars

-----------------------------------------------------------------------------
(* Properties of the analysis record *)

\* The distinct tool keys of an evidence map.
ToolKeys(d) == {d[k].tool : k \in DOMAIN d}

\* C12: in every analysis record of a run, ai_tool_count is the number of
\* distinct tool keys of ai_tools_detected, whatever the number of Evidence
\* under each; ai_tool_names lists exactly those keys, each once; and
\* is_multi_ai is true iff ai_tool_count is at least 2.
C12_CountsDistinctKeys ==
    \A k \in DOMAIN ecosystem_results :
        LET analysis == ecosystem_results[k]
            keys == ToolKeys(analysis.ai_tools_detected)
        IN  /\ analysis.ai_tool_count = Cardinality(keys)
            /\ SeqToSet(analysis.ai_tool_names) = keys
            /\ Len(analysis.ai_tool_names) = Cardinality(keys)
            /\ analysis.is_multi_ai <=> analysis.ai_tool_count >= 2

\* C12's case: a finished run holding a record of one tool with several
\* Evidence and a record of two tools with more Evidence than tools.
C12_Witness ==
    /\ run_pc = "returned"
    /\ \E k \in DOMAIN ecosystem_results :
          /\ ecosystem_results[k].ai_tool_count = 1
          /\ EvidenceTotal(ecosystem_results[k].ai_tools_detected) > 1
          /\ ~ecosystem_results[k].is_multi_ai
    /\ \E k \in DOMAIN ecosystem_results :
          /\ ecosystem_results[k].ai_tool_count = 2
          /\ EvidenceTotal(ecosystem_results[k].ai_tools_detected) > 2
          /\ ecosystem_results[k].is_multi_ai

-----------------------------------------------------------------------------
(* Properties of the report *)

ReportDone == run_pc = "save"

\* A report of nothing: no PR, no creator, no tool, no combination, and an
\* average of zero.
ZeroReport ==
    /\ report # NULL
    /\ report.total_prs = 0
    /\ report.multi_ai_prs = 0
    /\ report.creators = <<>>
    /\ report.tool_frequency = <<>>
    /\ report.top_multi_creator = NULL
    /\ report.top_combo = NULL
    /\ report.average.sum = 0

\* C13: the report of an empty list of analyses never raises, and once made
\* it is the zero report.
C13_EmptyReportCompletes ==
    Len(ecosystem_results) = 0 =>
        /\ run_pc # "raised"
        /\ ReportDone => ZeroReport

\* The positions of the multi-AI analyses whose tool names are the set T.
PositionsOfSet(T) ==
    {k \in DOMAIN ecosystem_results :
        /\ ecosystem_results[k].is_multi_ai
        /\ SeqToSet(ecosystem_results[k].ai_tool_names) = T}

\* The tool sets of the multi-AI analyses.
MultiSets ==
    {SeqToSet(ecosystem_results[k].ai_tool_names) :
        k \in {j \in DOMAIN ecosystem_results : ecosystem_results[j].is_multi_ai}}

FirstPosition(T) == CHOOSE k \in PositionsOfSet(T) : \A j \in PositionsOfSet(T) : k <= j

\* C14: tool combinations are counted as sets.  The top combination of a
\* report is a tool set of some multi-AI analysis, its count is the number
\* of multi-AI analyses with that set whatever the order of their names, no
\* set has a higher count, and every other set of the same count first
\* occurs later in the input.  Without a multi-AI analysis there is no top
\* combination.
C14_TopCombinationBySet ==
    ReportDone =>
        IF MultiSets = {} THEN report.top_combo = NULL
        ELSE LET top == SeqToSet(report.top_combo.key)
             IN  /\ top \in MultiSets
                 /\ Len(report.top_combo.key) = Cardinality(top)
                 /\ report.top_combo.count = Cardinality(PositionsOfSet(top))
                 /\ \A T \in MultiSets :
                       /\ Cardinality(PositionsOfSet(T)) <= report.top_combo.count
                       /\ (T # top /\ Cardinality(PositionsOfSet(T))
                                        = report.top_combo.count)
                            => FirstPosition(top) < FirstPosition(T)

\* C14's case: two analyses with the same two tools found in different
\* order, reported as one combination of count 2, after an analysis with
\* another combination.
C14_Witness ==
    /\ ReportDone
    /\ Len(ecosystem_results) = 3
    /\ ecosystem_results[1].is_multi_ai
    /\ SeqToSet(ecosystem_results[1].ai_tool_names)
         # SeqToSet(ecosystem_results[2].ai_tool_names)
    /\ ecosystem_results[2].ai_tool_names = <<"chatgpt", "github_copilot">>
    /\ ecosystem_results[3].ai_tool_names = <<"github_copilot", "chatgpt">>
    /\ report.top_combo = [key |-> <<"chatgpt", "github_copilot">>, count |-> 2]

CreatorOf(k) == ecosystem_results[k].primary_creator.primary_creator

\* The position of the first analysis with the given creator.
FirstSeenCreator(creator) ==
    CHOOSE k \in DOMAIN ecosystem_results :
        /\ CreatorOf(k) = creator
        /\ \A j \in 1..(k - 1) : CreatorOf(j) # creator

\* C15: the creator table of a report has one row per primary creator of the
\* input, the row's count being the number of analyses with that creator;
\* the counts never increase down the table, and of two rows with the same
\* count the one whose creator was seen first in the input stands first.
C15_CreatorTable ==
    ReportDone =>
        LET table == report.creators
        IN  /\ {table[p].key : p \in DOMAIN table}
                 = {CreatorOf(k) : k \in DOMAIN ecosystem_results}
            /\ \A p \in DOMAIN table :
                  table[p].count
                    = Cardinality({k \in DOMAIN ecosystem_results :
                                      CreatorOf(k) = table[p].key})
            /\ \A p, q \in DOMAIN table :
                  p < q =>
                     /\ table[p].key # table[q].key
                     /\ table[p].count >= table[q].count
                     /\ table[p].count = table[q].count =>
                           FirstSeenCreator(table[p].key)
                             < FirstSeenCreator(table[q].key)

\* C15's case: the creator seen second has two analyses and is listed before
\* the creator seen first, which has one.
C15_Witness ==
    /\ ReportDone
    /\ Len(ecosystem_results) = 3
    /\ CreatorOf(1) = "devin"
    /\ CreatorOf(2) = "github_copilot"
    /\ CreatorOf(3) = "github_copilot"
    /\ report.creators = <<[key |-> "github_copilot", count |-> 2],
                           [key |-> "devin", count |-> 1]>>

\* Two creators with one analysis each, listed in the order they were seen.
C15_TieWitness ==
    /\ ReportDone
    /\ Len(ecosystem_results) = 2
    /\ report.creators = <<[key |-> "cursor", count |-> 1],
                           [key |-> "devin", count |-> 1]>>

\* The analyses whose evidence map has the tool as a key.
AnalysesWith(tool) ==
    {k \in DOMAIN ecosystem_results :
        HasKey(ecosystem_results[k].ai_tools_detected, tool)}

\* The count the tool frequency table gives a tool, 0 when it has no row.
FrequencyOf(tool) ==
    LET rows == SelectSeq(report.tool_frequency, LAMBDA row : row.key = tool)
    IN  IF rows = <<>> THEN 0 ELSE rows[1].count

\* C16: in the tool frequency table of a report every tool's count is the
\* number of analyses that have the tool as a key of their evidence map,
\* one per analysis whatever the number of Evidence, so it is at most the
\* number of analyses; a tool has at most one row, and none when no
\* analysis has it.
C16_OnePerAnalysis ==
    ReportDone =>
        /\ \A tool \in MentionTools :
              /\ FrequencyOf(tool) = Cardinality(AnalysesWith(tool))
              /\ FrequencyOf(tool) <= Len(ecosystem_results)
        /\ \A p, q \in DOMAIN report.tool_frequency :
              /\ report.tool_frequency[p].key \in MentionTools
              /\ report.tool_frequency[p].count >= 1
              /\ p # q => report.tool_frequency[p].key
                            # report.tool_frequency[q].key

\* C16's case: two analyses that both hold several Evidence for chatgpt, and
\* a third without it; chatgpt's count is 2.
C16_Witness ==
    /\ ReportDone
    /\ Len(ecosystem_results) = 3
    /\ AnalysesWith("chatgpt") = {1, 2}
    /\ Len(Get(ecosystem_results[1].ai_tools_detected, "chatgpt")) > 1
    /\ Len(Get(ecosystem_results[2].ai_tools_detected, "chatgpt")) > 1
    /\ FrequencyOf("chatgpt") = 2

-----------------------------------------------------------------------------
(* The vocabulary of the verdict *)

\* The tools of the creator rules under which the lowercased author is a
\* registered bot account.
BotToolsOf(author) ==
    {creator_patterns[k].tool : k \in
        {n \in DOMAIN creator_patterns :
            \E j \in DOMAIN creator_patterns[n].bot_accounts :
                creator_patterns[n].bot_accounts[j] = Lower(author)}}

\* The tools whose branch marker is in the query.
MarkerToolsOf(query) ==
    {RecognizedMarkers[m].tool : m \in {n \in DOMAIN RecognizedMarkers : HasMarker(query, n)}}

\* C17: identify_primary_creator gives every (author, detection_query) one
\* verdict.  Its tool is a key of creator_patterns or "unknown" and its
\* confidence is high, medium or low.  A tool other than "unknown" is named
\* only on the strength of the creator rules (a bot account of that tool) or
\* of a branch marker of that tool in the query, never because the author or
\* the query holds a mention phrase.
C17_VerdictVocabulary ==
    Identified =>
        /\ primary_creator = identify_primary_creator(pr_data)
        /\ primary_creator.primary_creator \in CreatorTools \cup {"unknown"}
        /\ primary_creator.confidence \in {"high", "medium", "low"}
        /\ primary_creator.primary_creator # "unknown" =>
              primary_creator.primary_creator
                \in BotToolsOf(pr_data.author) \cup MarkerToolsOf(pr_data.detection_query)

\* C17's case: an author whose login holds a mention phrase of a tool outside
\* the creator rules, with a query without marker, identified as unknown.
C17_Witness ==
    /\ Identified
    /\ pr_data.author = "claude-dev"
    /\ "claude" \in ToolsIn(Lower(pr_data.author)) \ CreatorTools
    /\ MarkerToolsOf(pr_data.detection_query) = {}
    /\ primary_creator.primary_creator = "unknown"
    /\ primary_creator.confidence = "low"

-----------------------------------------------------------------------------
(* The length of a context snippet *)

\* Every Evidence of the scanned description, with the phrase it records.
FreshEvidence ==
    UNION {SeqToSet(FreshDict[k].evidence) : k \in DOMAIN FreshDict}

\* C18 as stated: every context snippet of an Evidence is at most 80
\* characters long.
C18_ContextAtMost80 ==
    FreshScan => \A e \in FreshEvidence : Len(e.context) <= ContextLength

\* C18, amended: a context snippet is at most 80 characters longer than the
\* phrase it was cut around: the phrase, and up to 40 characters on each
\* side of it.
C18_ContextAtMost80PlusPhrase ==
    FreshScan =>
        \A e \in FreshEvidence :
            /\ Len(e.context) <= ContextLength + Len(e.pattern)
            /\ Occurrences(e.context, e.pattern) > 0

\* C18's case: a phrase with more than 40 characters on each side of it,
\* whose snippet is longer than 80 characters.
C18_Witness ==
    /\ FreshScan
    /\ \E e \in FreshEvidence :
          /\ e.pattern = "github copilot"
          /\ Find(FreshText, e.pattern) > HalfContext(ContextLength)
          /\ Len(FreshText) - Find(FreshText, e.pattern) - Len(e.pattern)
               > HalfContext(ContextLength)
          /\ Len(e.context) > ContextLength

-----------------------------------------------------------------------------
(* Properties of the run *)

\* C19: a run of the mapper that collected at least one PR is never ended by
\* an exception, whatever sources of whatever PRs cannot be fetched or
\* processed; once it has made its report it holds one analysis per
\* collected PR, in collection order, and once it has returned the results
\* are saved.
C19_PartialDataNeverBlocks ==
    (program = "mapper" /\ Len(ai_prs) > 0) =>
        /\ run_pc # "raised"
        /\ run_pc \in {"save", "returned"} =>
              /\ report # NULL
              /\ Len(ecosystem_results) = Len(ai_prs)
              /\ \A k \in DOMAIN ai_prs :
                    ecosystem_results[k].pr_info.url = ai_prs[k].url
        /\ run_pc = "returned" =>
              /\ saved # NULL
              /\ Len(saved) = Len(ai_prs)

\* C20: without a token no client is built and no request is sent: the run
\* never leaves its start but to halt, for the mapper as for the test
\* harness.
C20_NoTokenHaltsAtStartup ==
    github_token = NULL =>
        /\ requests_issued = 0
        /\ run_pc \in {"start", "halted"}

-----------------------------------------------------------------------------
(***************************************************************************)
(* get_ai_pr_watcher_prs: the five searches, the list they fill, and the   *)
(* deduplicated list returned                                              *)
(***************************************************************************)

\* search_queries, lines 108-114.
search_queries ==
    <<"is:pr head:copilot/", "is:pr head:codex/", "is:pr head:cursor/",
      "is:pr author:devin-ai-integration[bot]", "is:pr author:codegen-sh[bot]">>

\* The cap of 'per_page': min(20, limit), line 126.
PerPageCap == 20

per_page(lim) == Min(PerPageCap, lim)

\* The positions of "/" in a string, and s.split('/')[-2], s.split('/')[-1].
SlashPositions(s) == {k \in 1..Len(s) : SubSeq(s, k, k) = "/"}

LastSlash(s) == CHOOSE k \in SlashPositions(s) : \A j \in SlashPositions(s) : j <= k

LastPart(s) == SubSeq(s, LastSlash(s) + 1, Len(s))

SecondLastPart(s) == LastPart(SubSeq(s, 1, LastSlash(s) - 1))

\* The record built from one item of a search answer (lines 137-150).
pr_info(pr, query) ==
    [pr_number |-> pr.number,
     title |-> pr.title,
     url |-> pr.html_url,
     repo_owner |-> SecondLastPart(pr.repository_url),
     repo_name |-> LastPart(pr.repository_url),
     detection_query |-> query,
     state |-> pr.state,
     created_at |-> pr.created_at,
     updated_at |-> pr.updated_at,
     author |-> pr.user,
     body |-> pr.body]

\* pr['user']['login'] on an item whose user is null raises TypeError.
SearchItemRaises(pr) == pr.user = NULL

\* `for pr in results['items']`: the records appended before the loop ends
\* or an item raises.
RECURSIVE AppendItemsFrom(_, _, _, _)
AppendItemsFrom(found, list, query, k) ==
    IF k > Len(list) THEN found
    ELSE IF SearchItemRaises(list[k]) THEN found
    ELSE AppendItemsFrom(Append(found, pr_info(list[k], query)), list, query, k + 1)

\* Variant of CollectQuery: a failed search empties the list.
CollectQuery_ResetOnFailure(found, query, answer) ==
    IF answer.status = "ok" THEN AppendItemsFrom(found, answer.items, query, 1)
    ELSE <<>>

\* One pass of `for query in search_queries` (lines 129-158): a request that
\* raises, and an answer other than 200, leave the list as it is.
CollectQuery(found, query, answer) ==
    IF answer.status = "ok" THEN AppendItemsFrom(found, answer.items, query, 1)
    ELSE found

\* Variant of UniquePRs: the first record of a url is kept.
RECURSIVE UniquePRs_KeepFirst(_, _)
UniquePRs_KeepFirst(found, k) ==
    IF k = 0 THEN <<>>
    ELSE LET before == UniquePRs_KeepFirst(found, k - 1)
         IN  IF \E j \in DOMAIN before : before[j].url = found[k].url
             THEN before
             ELSE Append(before, found[k])

\* unique_prs after the first k records (lines 160-163): a dict keyed by
\* url, so a url seen again keeps its place and takes the new record.
RECURSIVE UniquePRs(_, _)
UniquePRs(found, k) ==
    IF k = 0 THEN <<>>
    ELSE LET before == UniquePRs(found, k - 1)
         IN  IF \E j \in DOMAIN before : before[j].url = found[k].url
             THEN [j \in DOMAIN before |->
                      IF before[j].url = found[k].url THEN found[k] ELSE before[j]]
             ELSE Append(before, found[k])

\* list(unique_prs.values())[:limit], line 165.
final_prs(found, lim) == Prefix(UniquePRs(found, Len(found)), lim)

\* The item of a search answer for a PR of the forge, and an item whose user
\* is null.
SearchItemOf(pr) ==
    [number |-> pr.pr_number,
     title |-> pr.title,
     html_url |-> pr.url,
     repository_url |-> "https://api.github.com/repos/" \o pr.repo_owner
                          \o "/" \o pr.repo_name,
     state |-> pr.state,
     created_at |-> pr.created_at,
     updated_at |-> pr.updated_at,
     user |-> pr.author,
     body |-> pr.body]

ForgePR(number) == CHOOSE pr \in ForgePRs : pr.pr_number = number

GhostItem == [SearchItemOf(ForgePR(3)) EXCEPT !.user = NULL]

\* The item lists a search may answer with: one PR; two PRs, the second the
\* one of the first list; a PR, an item without user and a PR without body;
\* the PR without body alone.
SearchItemLists == {
    <<SearchItemOf(ForgePR(1))>>,
    <<SearchItemOf(ForgePR(2)), SearchItemOf(ForgePR(1))>>,
    <<SearchItemOf(ForgePR(1)), GhostItem, SearchItemOf(ForgePR(5))>>,
    <<SearchItemOf(ForgePR(5))>> }

\* What requests.get may give for a search asking for per_page items: an
\* exception, an answer other than 200, or 200 with at most per_page items.
SearchAnswers(lim) ==
    {[status |-> "raise", items |-> <<>>], [status |-> "non200", items |-> <<>>]}
      \cup {[status |-> "ok", items |-> list] :
               list \in {l \in SearchItemLists : Len(l) <= per_page(lim)}}

\* get_ai_pr_watcher_prs called with a limit, on its own.
InitCollect ==
    /\ ScanIdle
    /\ TesterIdle
    /\ program = "mapper"
    /\ github_token = "ghp_token"
    /\ run_pc = "collect"
    /\ requests_issued = 0
    /\ ai_prs = <<>>
    /\ pr_index = 1
    /\ ecosystem_results = <<>>
    /\ report = NULL
    /\ saved = NULL
    /\ limit \in 1..MaxPRs
    /\ query_index = 1
    /\ found_prs = <<>>
    /\ search_responses = <<>>

\* One query of the loop (lines 117-158): the request is sent and its answer,
\* whatever it is, is dealt with inside the try block.
search_query ==
    /\ run_pc = "collect"
    /\ query_index <= Len(search_queries)
    /\ \E answer \in SearchAnswers(limit) :
          /\ search_responses' = Append(search_responses, answer)
          /\ found_prs' = CollectQuery(found_prs, search_queries[query_index], answer)
    /\ query_index' = query_index + 1
    /\ requests_issued' = requests_issued + 1
    /\ UNCHANGED <<scanVars, testerVars, completed, limit>>
    /\ UNCHANGED <<program, github_token, run_pc, ai_prs, pr_index,
                   ecosystem_results, report, saved>>

\* The loop is over: duplicates are removed and the list is cut (lines
\* 160-168).
return_final_prs ==
    /\ run_pc = "collect"
    /\ query_index > Len(search_queries)
    /\ ai_prs' = final_prs(found_prs, limit)
    /\ run_pc' = "collected"
    /\ UNCHANGED <<scanVars, testerVars, completed, collectVars>>
    /\ UNCHANGED <<program, github_token, requests_issued, pr_index,
                   ecosystem_results, report, saved>>

NextCollect == search_query \/ return_final_prs

SpecCollect == InitCollect /\ [][NextCollect]_vars

-----------------------------------------------------------------------------
(* Properties of the collection *)

Collected == run_pc = "collected"

\* A search that failed: the request raised or the answer was not 200.
SearchFailed(k) == search_responses[k].status \in {"raise", "non200"}

\* The records a query contributes: none when it failed, else one for each
\* item answered, up to the first item that cannot be read.
Contribution(k) ==
    IF SearchFailed(k) THEN <<>>
    ELSE LET list == search_responses[k].items
             readable == {n \in 0..Len(list) : \A j \in 1..n : list[j].user # NULL}
             count == CHOOSE n \in readable : \A m \in readable : m <= n
         IN  [j \in 1..count |-> pr_info(list[j], search_queries[k])]

RECURSIVE ContributionsUpTo(_)
ContributionsUpTo(k) ==
    IF k = 0 THEN <<>> ELSE ContributionsUpTo(k - 1) \o Contribution(k)

UrlsOf(prs) == {prs[k].url : k \in DOMAIN prs}

\* C21: a search that raises or is answered other than 200 counts as a
\* search without result.  No exception leaves get_ai_pr_watcher_prs; every
\* query is sent whatever became of the queries before it; the list holds
\* what the searches that did not fail contributed, in query order; and
\* every PR so found is returned, as far as the limit allows.
C21_FailedSearchIsEmpty ==
    /\ run_pc \in {"collect", "collected"}
    /\ Len(search_responses) = query_index - 1
    /\ requests_issued = Len(search_responses)
    /\ found_prs = ContributionsUpTo(Len(search_responses))
    /\ Collected =>
          /\ Len(search_responses) = Len(search_queries)
          /\ UrlsOf(ai_prs) \subseteq UrlsOf(found_prs)
          /\ Cardinality(UrlsOf(found_prs)) <= limit =>
                UrlsOf(ai_prs) = UrlsOf(found_prs)

\* C21's case: the second and fifth searches raised and the third was
\* answered other than 200; the PRs of the first and fourth are returned.
C21_Witness ==
    /\ Collected
    /\ search_responses[1].status = "ok"
    /\ search_responses[2].status = "raise"
    /\ search_responses[3].status = "non200"
    /\ search_responses[4].status = "ok"
    /\ search_responses[5].status = "raise"
    /\ Len(ai_prs) = 2
    /\ ai_prs[1].pr_number = 1
    /\ ai_prs[1].detection_query = search_queries[1]
    /\ ai_prs[2].pr_number = 5
    /\ ai_prs[2].detection_query = search_queries[4]

\* The first and the last position of a url in the list the searches filled.
FirstFound(url) ==
    CHOOSE k \in DOMAIN found_prs :
        /\ found_prs[k].url = url
        /\ \A j \in 1..(k - 1) : found_prs[j].url # url

LastFound(url) ==
    CHOOSE k \in DOMAIN found_prs :
        /\ found_prs[k].url = url
        /\ \A j \in (k + 1)..Len(found_prs) : found_prs[j].url # url

\* The number of the query that contributed the record at a position.
QueryOfPosition(pos) ==
    CHOOSE k \in DOMAIN search_responses :
        Len(ContributionsUpTo(k - 1)) < pos /\ pos <= Len(ContributionsUpTo(k))

\* C27: get_ai_pr_watcher_prs(limit) returns at most limit records, no two
\* with the same url.  A returned record is the last one found for its url,
\* so it carries the detection_query of the last query that returned that
\* url; the records stand in the order in which their urls first appeared,
\* and a url that appeared before a returned one is returned too.
C27_DistinctUrlsLastQueryFirstPlace ==
    Collected =>
        /\ Len(ai_prs) <= limit
        /\ Len(ai_prs) = Min(limit, Cardinality(UrlsOf(found_prs)))
        /\ \A j, k \in DOMAIN ai_prs :
              j < k =>
                 /\ ai_prs[j].url # ai_prs[k].url
                 /\ FirstFound(ai_prs[j].url) < FirstFound(ai_prs[k].url)
        /\ \A k \in DOMAIN ai_prs :
              /\ ai_prs[k].url \in UrlsOf(found_prs)
              /\ ai_prs[k] = found_prs[LastFound(ai_prs[k].url)]
              /\ ai_prs[k].detection_query
                   = search_queries[QueryOfPosition(LastFound(ai_prs[k].url))]
              /\ \A url \in UrlsOf(found_prs) :
                    FirstFound(url) < FirstFound(ai_prs[k].url) =>
                       url \in UrlsOf(ai_prs)

\* C27's case: PR 1 is returned by the first query and again, after PR 2, by
\* the second; a third PR is found later and the limit is 2.  PR 1 is
\* returned first, with the second query as its detection_query.
C27_Witness ==
    /\ Collected
    /\ limit = 2
    /\ Cardinality(UrlsOf(found_prs)) = 3
    /\ found_prs[1].pr_number = 1
    /\ found_prs[2].pr_number = 2
    /\ found_prs[3].pr_number = 1
    /\ Len(ai_prs) = 2
    /\ ai_prs[1].pr_number = 1
    /\ ai_prs[1].detection_query = search_queries[2]
    /\ ai_prs[2].pr_number = 2

-----------------------------------------------------------------------------
(* The report under permutations of its input *)

\* The orders the analyses of the report could have come in.
Orders(n) ==
    {f \in [1..n -> 1..n] : \A j, k \in 1..n : j # k => f[j] # f[k]}

Permuted(results, f) == [k \in DOMAIN results |-> results[f[k]]]

Rows(table) == {table[k] : k \in DOMAIN table}

\* The counts of a report's top combination and top multi-AI creator, 0
\* when it has none.
TopComboCount(r) == IF r.multi_ai_prs = 0 THEN 0 ELSE r.top_combo.count

TopMultiCreatorCount(r) ==
    IF r.multi_ai_prs = 0 THEN 0 ELSE r.top_multi_creator.count

\* The combinations of the input with the highest count, and the creators
\* with the most multi-AI analyses.
TopCountedSets ==
    {T \in MultiSets :
        \A U \in MultiSets :
            Cardinality(PositionsOfSet(U)) <= Cardinality(PositionsOfSet(T))}

-----------------------------------------------------------------------------
(* The four scans of a PR ending in any order *)

\* The longest list of PRs analysed with their scans in any order.
MaxAnyOrderPRs == 2

\* The sources of scan_pr_for_ai_tools: the description (lines 215-223) and
\* the three fetched categories (lines 225-253).
Sources == {"description"} \cup Cat

\* Variant of MergeOrder: the category results merged in the order their
\* scans ended.
MergeOrder_AsCompleted == SelectSeq(completed, LAMBDA s : s \in Cat)

\* The order in which scan_pr_for_ai_tools merges the category results into
\* ai_tools_found (lines 225-253): comments, then review comments, then
\* commits.
MergeOrder == Categories

\* The body of analyze_pr_ai_ecosystem after its two calls (lines 391-406).
AnalysisRecord(pr, creator, found) ==
    [pr_info |-> [url |-> pr.url,
                  repo |-> pr.repo_owner \o "/" \o pr.repo_name,
                  pr_number |-> pr.pr_number,
                  title |-> pr.title,
                  author |-> pr.author,
                  state |-> pr.state],
     primary_creator |-> creator,
     ai_tools_detected |-> found,
     ai_tool_count |-> Len(found),
     ai_tool_names |-> Keys(found),
     is_multi_ai |-> Len(found) > 1]

\* The category results merged into found in the given order, each by the
\* loop of lines 227-231, 236-240 or 245-249.
RECURSIVE MergeInOrder(_, _, _, _)
MergeInOrder(found, evidence, order, k) ==
    IF k > Len(order) THEN found
    ELSE MergeInOrder(MergeAllFrom(found, evidence[order[k]], 1), evidence,
                      order, k + 1)

\* What the fetch of one category may give, taken from the profiles.
CategoryFetches(c) == {f[c] : f \in FetchProfiles}

\* Two PRs whose description names tools that their comments and review
\* comments name too.
AnyOrderPRs == {ForgePR(1), ForgePR(6)}

InitAnyOrder ==
    /\ ScanIdle
    /\ program = "mapper"
    /\ github_token = "ghp_token"
    /\ run_pc = "analyze"
    /\ requests_issued = 0
    /\ ai_prs \in DistinctSeqsUpTo(AnyOrderPRs, MaxAnyOrderPRs) \ {<<>>}
    /\ pr_index = 1
    /\ ecosystem_results = <<>>
    /\ report = NULL
    /\ saved = NULL
    /\ CollectIdle
    /\ TesterIdle

\* The loop of run_ecosystem_mapping reaches the next PR (lines 426-430) and
\* analyze_pr_ai_ecosystem identifies its creator (line 388);
\* scan_pr_for_ai_tools starts from an empty dict (line 213), each category
\* scan from its own (lines 260, 296, 332).
begin_analysis ==
    /\ run_pc = "analyze"
    /\ pc.step = "idle"
    /\ pr_index <= Len(ai_prs)
    /\ pr_data' = ai_prs[pr_index]
    /\ primary_creator' = identify_primary_creator(ai_prs[pr_index])
    /\ pc' = At("scanning", "-")
    /\ ai_tools_found' = <<>>
    /\ ai_evidence' = [c \in Cat |-> <<>>]
    /\ items' = [c \in Cat |-> <<>>]
    /\ outcome' = [c \in Cat |-> "pending"]
    /\ completed' = <<>>
    /\ UNCHANGED <<response, idx, runVars, collectVars, testerVars>>

\* The scan of the description (lines 215-223), ending before or after any
\* of the category scans.  A null body raises at line 222.
scan_description ==
    /\ pc.step = "scanning"
    /\ "description" \notin SeqToSet(completed)
    /\ IF DescriptionRaises(pr_data)
       THEN /\ pc' = At("raised", "-")
            /\ run_pc' = "raised"
            /\ UNCHANGED <<ai_tools_found, completed>>
       ELSE /\ ai_tools_found' = ScanDescription(pr_data)
            /\ completed' = Append(completed, "description")
            /\ UNCHANGED <<pc, run_pc>>
    /\ UNCHANGED <<pr_data, primary_creator, ai_evidence, response, items,
                   idx, outcome, program, github_token, requests_issued,
                   ai_prs, pr_index, ecosystem_results, report, saved,
                   collectVars, testerVars>>

\* One of _scan_pr_comments, _scan_review_comments, _scan_commit_messages
\* (lines 258-364) run to its return, whichever of the others have ended.
scan_category(c) ==
    /\ pc.step = "scanning"
    /\ outcome[c] = "pending"
    /\ \E fetched \in CategoryFetches(c) :
          /\ outcome' = [outcome EXCEPT ![c] = fetched.outcome]
          /\ items' = [items EXCEPT ![c] = fetched.items]
          /\ ai_evidence' = [ai_evidence EXCEPT ![c] = CategoryScan(c, fetched)]
    /\ requests_issued' = requests_issued + 1
    /\ completed' = Append(completed, c)
    /\ UNCHANGED <<pr_data, pc, primary_creator, ai_tools_found, response,
                   idx, program, github_token, run_pc, ai_prs, pr_index,
                   ecosystem_results, report, saved, collectVars, testerVars>>

scan_any_category == \E c \in Cat : scan_category(c)

\* With the four scans ended, their results are merged in the order of
\* lines 225-253, analyze_pr_ai_ecosystem compiles its record (lines 391-406)
\* and the loop appends it (line 430).
merge_results ==
    /\ pc.step = "scanning"
    /\ SeqToSet(completed) = Sources
    /\ LET found == MergeInOrder(ai_tools_found, ai_evidence, MergeOrder, 1)
       IN  /\ ai_tools_found' = found
           /\ ecosystem_results' =
                 Append(ecosystem_results,
                        AnalysisRecord(pr_data, primary_creator, found))
    /\ pc' = At("idle", "-")
    /\ pr_index' = pr_index + 1
    /\ run_pc' = IF pr_index = Len(ai_prs) THEN "report" ELSE "analyze"
    /\ UNCHANGED <<pr_data, primary_creator, ai_evidence, response, items,
                   idx, outcome, program, github_token, requests_issued,
                   ai_prs, report, saved, collectVars, testerVars, completed>>

NextAnyOrder ==
    \/ begin_analysis
    \/ scan_description
    \/ scan_any_category
    \/ merge_results

SpecAnyOrder == InitAnyOrder /\ [][NextAnyOrder]_vars

\* What the fetches of the PR last analysed gave.
OwnFetches == [c \in Cat |-> [outcome |-> outcome[c], items |-> items[c]]]

\* The PR last analysed has its record appended.
Merged == pc.step = "idle" /\ SeqToSet(completed) = Sources

\* What the three fetches of one PR may give, each on its own.
FetchCombinations ==
    {[comments |-> a, reviews |-> b, commits |-> c] :
        a \in CategoryFetches("comments"), b \in CategoryFetches("reviews"),
        c \in CategoryFetches("commits")}

\* Every record the sequential analysis of a PR can return.
SequentialAnalyses ==
    [pr \in AnyOrderPRs |->
        IF DescriptionRaises(pr) THEN {}
        ELSE {analyze_pr_ai_ecosystem(pr, f) : f \in FetchCombinations}]

-----------------------------------------------------------------------------
(* One Evidence per phrase *)

\* The phrases of the Evidence a dict holds under a tool, in their order.
PhrasesRecorded(d, tool) ==
    [k \in 1..Len(Get(d, tool)) |-> Get(d, tool)[k].pattern]

\* C24: for one text, the Evidence recorded under a tool are one for each of
\* the tool's cataloged phrases that occurs in the lowercased text, in
\* catalog order, however often the phrase occurs and whether or not it
\* overlaps or lies inside another phrase of the tool that occurs too.
C24_OneEvidencePerMatchingPhrase ==
    FreshScan =>
        \A tool \in MentionTools :
            /\ PhrasesRecorded(FreshDict, tool) =
                  SelectSeq(PatternsOf(tool),
                            LAMBDA p : Occurrences(FreshText, p) > 0)
            /\ Len(Get(FreshDict, tool)) = Cardinality(PhrasesIn(FreshText, tool))

\* A text scanned in which copilot occurs twice, once inside copilot
\* suggested and once inside thanks copilot: three Evidence, one per phrase.
C24_Witness ==
    /\ FreshScan
    /\ Occurrences(FreshText, "copilot") = 2
    /\ PhrasesRecorded(FreshDict, "github_copilot")
          = <<"copilot", "copilot suggested", "thanks copilot">>

-----------------------------------------------------------------------------
(* One verdict per author and query *)

\* The recognized markers a query holds, as positions of the fixed order.
MarkersIn(query) ==
    {m \in DOMAIN RecognizedMarkers : HasMarker(query, m)}

\* The first marker of the fixed order that the query holds.
FirstMarkerIn(query) ==
    CHOOSE m \in MarkersIn(query) : \A n \in MarkersIn(query) : m <= n

\* The evidence text the code gives for each marker, in the fixed order.
MarkerEvidence == <<
    "Branch pattern: copilot/", "Branch pattern: codex/",
    "Branch pattern: cursor/ (cursor is primarily an IDE)" >>

\* C25: the verdict is a function of the author and the detection query
\* alone, and for an author that is no bot account and a query with more
\* than one recognized marker it is, in every field, the verdict of the
\* first marker in the order head:copilot/, head:codex/, head:cursor/,
\* wherever the markers stand in the query.
C25_OneVerdictFirstMarker ==
    Identified =>
        /\ primary_creator =
              identify_primary_creator(
                  [author |-> pr_data.author,
                   detection_query |-> pr_data.detection_query])
        /\ (/\ ~IsRegisteredBot(pr_data.author)
            /\ Cardinality(MarkersIn(pr_data.detection_query)) > 1) =>
              LET m == FirstMarkerIn(pr_data.detection_query)
              IN  primary_creator =
                     [primary_creator |-> RecognizedMarkers[m].tool,
                      confidence |-> RecognizedMarkers[m].tier,
                      evidence |-> MarkerEvidence[m]]

\* An author that is no bot account, found by a query that holds the cursor
\* marker before the copilot marker, identified as github_copilot.
C25_Witness ==
    /\ Identified
    /\ pr_data.author = "alice"
    /\ pr_data.detection_query = "is:pr head:cursor/ head:copilot/"
    /\ MarkersIn(pr_data.detection_query) = {1, 3}
    /\ primary_creator.primary_creator = "github_copilot"
    /\ primary_creator.confidence = "medium"

-----------------------------------------------------------------------------
(* The records after the analysis loop *)

\* The fields of an analysis record that the saved copy takes as they are.
KeptFields ==
    {"pr_info", "primary_creator", "ai_tool_count", "ai_tool_names",
     "is_multi_ai"}

\* The saved copy of one record differs from it by the context of every
\* Evidence and by nothing else.
CopyLacksOnlyContext(copy, record) ==
    /\ DOMAIN copy = DOMAIN record
    /\ \A f \in KeptFields : copy[f] = record[f]
    /\ Keys(copy.ai_tools_detected) = Keys(record.ai_tools_detected)
    /\ \A t \in DOMAIN record.ai_tools_detected :
          LET kept == copy.ai_tools_detected[t].evidence
              held == record.ai_tools_detected[t].evidence
          IN  /\ Len(kept) = Len(held)
              /\ \A j \in DOMAIN held :
                    /\ DOMAIN kept[j] = DOMAIN held[j] \ {"context"}
                    /\ \A f \in DOMAIN kept[j] : kept[j][f] = held[j][f]

\* A step of the report or of the save changes no record, and the copy the
\* save writes lacks only the contexts.
KeepsRecords ==
    run_pc \in {"report", "save"} =>
        /\ ecosystem_results' = ecosystem_results
        /\ run_pc' = "returned" =>
              /\ Len(saved') = Len(ecosystem_results)
              /\ \A k \in DOMAIN ecosystem_results :
                    CopyLacksOnlyContext(saved'[k], ecosystem_results[k])

\* C26: once the analysis loop has ended, the report and the save leave
\* every analysis record as analyze_pr_ai_ecosystem returned it, and the
\* copy that is saved holds, record by record, the same fields, tool keys,
\* counts, names and Evidence, each Evidence without its context only.
C26_ReportAndSaveKeepRecords == [][KeepsRecords]_vars

\* Two analyses reported and saved, the first with an Evidence whose context
\* the analysis still holds and the saved copy lacks.
C26_Witness ==
    /\ run_pc = "returned"
    /\ Len(ecosystem_results) = 2
    /\ report.total_prs = 2
    /\ Len(ecosystem_results[1].ai_tools_detected) > 0
    /\ "context" \in DOMAIN ecosystem_results[1].ai_tools_detected[1].evidence[1]
    /\ "context" \notin DOMAIN saved[1].ai_tools_detected[1].evidence[1]
    /\ saved[1].ai_tools_detected[1].evidence[1].pattern =
          ecosystem_results[1].ai_tools_detected[1].evidence[1].pattern

-----------------------------------------------------------------------------
(* What run_ecosystem_mapping returns to main *)

\* run_ecosystem_mapping has returned to main, with a value or without.
RunOver == run_pc \in {"returned", "returned_none", "exit", "main_raised"}

\* C28: run_ecosystem_mapping always returns a sequence of analyses, one for
\* each collected PR and empty when none was collected, and main, which
\* takes the length of what was returned, never raises.
C28_RunReturnsSequence ==
    /\ run_pc # "returned_none"
    /\ run_pc # "main_raised"
    /\ RunOver => Len(ecosystem_results) = Len(ai_prs)

-----------------------------------------------------------------------------
(***************************************************************************)
(* AIWatcherTester: the requests of create_branch, create_file_in_branch   *)
(* and create_pull_request, one at a time                                  *)
(***************************************************************************)

\* The most requests the methods called in one run send.
MaxRequests == 4

\* The status codes the methods test for.
StatusOK == 200

StatusCreated == 201

\* What a request gives: an answer with a status code, or an exception of
\* requests (no connection, timeout), which no method of the class catches.
Answer(status_code) == [raised |-> FALSE, status_code |-> status_code]

NoAnswer == [raised |-> TRUE, status_code |-> 0]

AnswersOf(codes) == {Answer(code) : code \in codes} \cup {NoAnswer}

\* The answers of the forge to the requests of the class.
MainRefAnswers == AnswersOf({StatusOK, 404})

CreateRefAnswers == AnswersOf({StatusCreated, 422})

CreateFileAnswers == AnswersOf({StatusCreated, 422})

CreatePullAnswers == AnswersOf({StatusCreated, 422})

AddLabelsAnswers == AnswersOf({StatusOK, 404})

\* The arguments the methods are called with.
BranchNames == {"copilot/fix-1", "feature"}

LabelArguments == {
    NoLabels,
    [given |-> TRUE, names |-> <<>>],
    [given |-> TRUE, names |-> <<"ai-generated">>] }

\* The number the forge gives a created PR.
PullNumbers == {7}

\* `if labels:` (line 95): a list was given and is not empty.
Truthy(labels) == labels.given /\ Len(labels.names) > 0

\* A request as sent, with what came back.
Sent(method, path, answer) ==
    [method |-> method, path |-> path, raised |-> answer.raised,
     status_code |-> answer.status_code]

\* Python values a method returns, and the exception that leaves it.
PyBool(b) == [kind |-> "bool", value |-> b]

PyInt(n) == [kind |-> "int", value |-> n]

PyNone == [kind |-> "None"]

Raised == [kind |-> "raised"]

\* Variant of AfterMainRef: the branch is created whatever status the read
\* of the main ref had.
AfterMainRef_AlwaysCreate(answer) ==
    IF answer.raised THEN [step |-> "over", returned |-> Raised]
    ELSE [step |-> "post_ref", returned |-> Nothing]

\* create_branch after its GET (lines 33-38): any status but 200 returns
\* False; with 200 the sha is read and the method goes on to create the ref.
AfterMainRef(answer) ==
    IF answer.raised THEN [step |-> "over", returned |-> Raised]
    ELSE IF answer.status_code # StatusOK
    THEN [step |-> "over", returned |-> PyBool(FALSE)]
    ELSE [step |-> "post_ref", returned |-> Nothing]

\* create_branch after its POST (lines 46-52): True for 201, False otherwise.
AfterCreateRef(answer) ==
    IF answer.raised THEN Raised
    ELSE PyBool(answer.status_code = StatusCreated)

\* create_pull_request after its POST (lines 87-101): with 201 the number is
\* read and labels are added if given, before the number is returned; any
\* other status returns None.
AfterCreatePull(answer, number, labels) ==
    IF answer.raised THEN [step |-> "over", returned |-> Raised]
    ELSE IF answer.status_code = StatusCreated
    THEN IF Truthy(labels)
         THEN [step |-> "post_labels", returned |-> Nothing]
         ELSE [step |-> "over", returned |-> PyInt(number)]
    ELSE [step |-> "over", returned |-> PyNone]

\* create_pull_request after add_labels_to_pr (lines 96-98, 103-111): the
\* status of the label request is only printed.
AfterAddLabels(answer, number) ==
    IF answer.raised THEN Raised ELSE PyInt(number)

\* A tester built with a token (lines 12-26), no method called yet.
InitTester ==
    /\ ScanIdle
    /\ program = "tester"
    /\ github_token = "ghp_token"
    /\ run_pc = "tester_ready"
    /\ requests_issued = 0
    /\ ai_prs = <<>>
    /\ pr_index = 1
    /\ ecosystem_results = <<>>
    /\ report = NULL
    /\ saved = NULL
    /\ CollectIdle
    /\ TesterIdle

\* No method is under way and the run may send another request.
MayCall ==
    /\ run_pc = "tester_ready"
    /\ call.step \in {"idle", "over"}
    /\ requests_issued < MaxRequests

testerFrame ==
    <<scanVars, collectVars, completed, program, github_token, run_pc,
      ai_prs, pr_index, ecosystem_results, report, saved>>

\* The call of a method with its arguments: nothing sent yet.
Called(method, step, branch_name, labels) ==
    [method |-> method, step |-> step, branch_name |-> branch_name,
     labels |-> labels, pr_number |-> 0]

\* One request of the method under way is sent and answered.
Request(method, path, answer) ==
    /\ request_log' = Append(request_log, Sent(method, path, answer))
    /\ requests_issued' = requests_issued + 1
    /\ UNCHANGED testerFrame

\* create_branch is called (line 28).
create_branch_begin ==
    /\ MayCall
    /\ \E b \in BranchNames :
          call' = Called("create_branch", "get_main", b, NoLabels)
    /\ request_log' = <<>>
    /\ returned' = Nothing
    /\ UNCHANGED <<testerFrame, requests_issued>>

\* create_branch reads the main ref (lines 33-38).
create_branch_get_main ==
    /\ call.step = "get_main"
    /\ \E answer \in MainRefAnswers :
          /\ Request("GET", "/git/refs/heads/main", answer)
          /\ call' = [call EXCEPT !.step = AfterMainRef(answer).step]
          /\ returned' = AfterMainRef(answer).returned

\* create_branch creates the ref (lines 40-52).
create_branch_post_ref ==
    /\ call.step = "post_ref"
    /\ \E answer \in CreateRefAnswers :
          /\ Request("POST", "/git/refs", answer)
          /\ call' = [call EXCEPT !.step = "over"]
          /\ returned' = AfterCreateRef(answer)

\* create_file_in_branch (lines 54-74): one PUT, True for 201.
create_file_in_branch ==
    \E b \in BranchNames, answer \in CreateFileAnswers :
        /\ MayCall
        /\ call' = Called("create_file_in_branch", "over", b, NoLabels)
        /\ request_log' = <<Sent("PUT", "/contents/README.md", answer)>>
        /\ requests_issued' = requests_issued + 1
        /\ returned' = AfterCreateRef(answer)
        /\ UNCHANGED testerFrame

\* create_pull_request is called (line 76).
create_pull_request_begin ==
    /\ MayCall
    /\ \E b \in BranchNames, labels \in LabelArguments :
          call' = Called("create_pull_request", "post_pull", b, labels)
    /\ request_log' = <<>>
    /\ returned' = Nothing
    /\ UNCHANGED <<testerFrame, requests_issued>>

\* create_pull_request creates the PR (lines 80-101).
create_pull_request_post ==
    /\ call.step = "post_pull"
    /\ \E answer \in CreatePullAnswers, number \in PullNumbers :
          LET after == AfterCreatePull(answer, number, call.labels)
          IN  /\ Request("POST", "/pulls", answer)
              /\ call' = [call EXCEPT !.step = after.step,
                                      !.pr_number =
                                          IF after.returned = PyNone
                                             \/ after.returned = Raised
                                          THEN 0 ELSE number]
              /\ returned' = after.returned

\* add_labels_to_pr (lines 103-111), called by create_pull_request, and the
\* return of the number (line 98).
add_labels_to_pr ==
    /\ call.step = "post_labels"
    /\ \E answer \in AddLabelsAnswers :
          /\ Request("POST", "/issues/{pr_number}/labels", answer)
          /\ call' = [call EXCEPT !.step = "over"]
          /\ returned' = AfterAddLabels(answer, call.pr_number)

NextTester ==
    \/ create_branch_begin
    \/ create_branch_get_main
    \/ create_branch_post_ref
    \/ create_file_in_branch
    \/ create_pull_request_begin
    \/ create_pull_request_post
    \/ add_labels_to_pr

SpecTester == InitTester /\ [][NextTester]_vars

\* The method under way has returned or raised.
CallOver == call.step = "over"

\* The call under way sent the request and got the status code back.
Answered(method, path, status_code) ==
    \E k \in DOMAIN request_log :
        request_log[k] = Sent(method, path, Answer(status_code))

\* A request of the call under way raised.
RequestRaised == \E k \in DOMAIN request_log : request_log[k].raised

\* Every request to the path directly follows the prerequisite request,
\* answered with the status code.
OnlyAfter(path, method, prerequisite, status_code) ==
    \A k \in DOMAIN request_log :
        request_log[k].path = path =>
            /\ k > 1
            /\ request_log[k - 1] = Sent(method, prerequisite, Answer(status_code))

\* The requests of the two methods come in the order of their dependence.
PrerequisitesFirst ==
    /\ OnlyAfter("/git/refs", "GET", "/git/refs/heads/main", StatusOK)
    /\ OnlyAfter("/issues/{pr_number}/labels", "POST", "/pulls", StatusCreated)

=============================================================================
